---- MODULE Spec2Model ----
(***************************************************************************)
(* UsenetStreamer: the NZBDav stream pipeline of server.js.                *)
(*                                                                         *)
(* One Node.js event loop.  A macrotask (an inbound HTTP request, the      *)
(* response of an outbound call, a timer) runs only when the microtask     *)
(* queue is empty; the continuations of settled promises are microtasks    *)
(* and run in FIFO order.                                                  *)
(***************************************************************************)
EXTENDS Integers, Sequences, FiniteSets, TLC

\* ---------------------------------------------------------------- constants
NZBDAV_POLL_INTERVAL_MS == 2000
NZBDAV_POLL_TIMEOUT_MS == 80000
NZBDAV_CACHE_TTL_MS == 3600000
NZBDAV_MAX_DIRECTORY_DEPTH == 6

\* ------------------------------------------------------------------- bounds
MaxRequests == 2
MaxTicks == 2

Req == 1..MaxRequests

\* Durations by which the clock is seen to advance between two events.
ClockSteps ==
  { NZBDAV_POLL_INTERVAL_MS,
    NZBDAV_POLL_TIMEOUT_MS - NZBDAV_POLL_INTERVAL_MS,
    NZBDAV_CACHE_TTL_MS - NZBDAV_POLL_INTERVAL_MS }

\* Request inputs (req.query).
DownloadUrls == {"u1", "u2"}
Types == {"movie"}
Episodes == {[none |-> TRUE]}
NoEpisode == [none |-> TRUE]

NZBDAV_CATEGORY_MOVIES == "Movies"
NZBDAV_CATEGORY_SERIES == "Tv"
NZBDAV_CATEGORY_DEFAULT == "Movies"

getNzbdavCategory(type) ==
  IF type = "series" \/ type = "tv" THEN NZBDAV_CATEGORY_SERIES
  ELSE IF type = "movie" THEN NZBDAV_CATEGORY_MOVIES
  ELSE NZBDAV_CATEGORY_DEFAULT

\* cacheKeyParts of handleNzbdavStream: [downloadUrl, category] plus the
\* "SxE" part when an episode is requested.
CacheKey(downloadUrl, category, requestedEpisode) ==
  IF requestedEpisode = NoEpisode
  THEN <<downloadUrl, category>>
  ELSE <<downloadUrl, category, <<requestedEpisode.season, "x", requestedEpisode.episode>> >>

Keys == { CacheKey(u, getNzbdavCategory(t), e) : u \in DownloadUrls, t \in Types, e \in Episodes }

\* ------------------------------------------------------------ configuration
\* ensureNzbdavConfigured(): NZBDAV_URL, NZBDAV_API_KEY and NZBDAV_WEBDAV_URL
\* are read once from the environment; cfg is that triple, "" when unset.
Configurations ==
  { [url |-> "http://dav", apiKey |-> "key", webdavUrl |-> "http://dav"],
    [url |-> "http://dav", apiKey |-> "",    webdavUrl |-> "http://dav"] }

ensureNzbdavConfigured(cfg) ==
  IF cfg.url = "" THEN "NZBDAV_URL is not configured"
  ELSE IF cfg.apiKey = "" THEN "NZBDAV_API_KEY is not configured"
  ELSE IF cfg.webdavUrl = "" THEN "NZBDAV_WEBDAV_URL is not configured"
  ELSE "ok"

\* Variant: the inputs are looked at only after the call.
SubmitPrecheckConfigOnly(c, nzbUrl, category) == ensureNzbdavConfigured(c)

\* addNzbToNzbdav before its network call: the configuration, then the
\* download URL, then the category; "ok" or the message of the error thrown.
SubmitPrecheck(c, nzbUrl, category) ==
  IF ensureNzbdavConfigured(c) # "ok" THEN ensureNzbdavConfigured(c)
  ELSE IF nzbUrl = "" THEN "Missing NZB download URL"
  ELSE IF category = "" THEN "Missing NZBDav category"
  ELSE "ok"

\* -------------------------------------------------------------------- errors
\* An Error object.  obj is the identity of the object (the build that
\* created it); the other fields are the properties the code sets on it.
MkError(b, kind) ==
  [obj |-> b, kind |-> kind, isNzbdavFailure |-> FALSE,
   failureMessage |-> "", nzoId |-> "", category |-> ""]

\* waitForNzbdavHistorySlot, the failureError of the status "failed" branch.
MkFailureError(b, failMessage, nzoId, category) ==
  [obj |-> b, kind |-> "jobfail", isNzbdavFailure |-> TRUE,
   failureMessage |-> failMessage, nzoId |-> nzoId, category |-> category]

NoOutcome == [kind |-> "none"]
Ok(data) == [kind |-> "ok", data |-> data]
Err(error) == [kind |-> "err", error |-> error]

\* ------------------------------------------------------ download manager API
\* The data of an addurl response.  "" is an absent (falsy) field, <<>> an
\* absent or empty array.
AddUrlData(status, nzo_id, nzoId, NzoId, nzo_ids, queue) ==
  [status |-> status, nzo_id |-> nzo_id, nzoId |-> nzoId, NzoId |-> NzoId,
   nzo_ids |-> nzo_ids, queue |-> queue]

AddUrlResponses ==
  { AddUrlData(FALSE, "", "", "", <<>>, <<>>),
    AddUrlData(TRUE,  "", "", "", <<>>, <<>>),
    AddUrlData(TRUE,  "nzo1", "", "", <<>>, <<>>),
    AddUrlData(TRUE,  "", "", "", <<"nzo1">>, <<>>),
    AddUrlData(TRUE,  "", "", "", <<>>, <<"nzo1">>),
    AddUrlData(FALSE, "nzo1", "", "", <<>>, <<>>) }

\* Variant: the id of the first queue item is not looked at.
ExtractNzoIdNoQueue(data) ==
  IF data.nzo_id # "" THEN data.nzo_id
  ELSE IF data.nzoId # "" THEN data.nzoId
  ELSE IF data.NzoId # "" THEN data.NzoId
  ELSE IF Len(data.nzo_ids) > 0 /\ data.nzo_ids[1] # "" THEN data.nzo_ids[1]
  ELSE ""

\* addNzbToNzbdav: the nzoId of a response, "" when none of the aliases
\* carries one.
ExtractNzoId(data) ==
  IF data.nzo_id # "" THEN data.nzo_id
  ELSE IF data.nzoId # "" THEN data.nzoId
  ELSE IF data.NzoId # "" THEN data.NzoId
  ELSE IF Len(data.nzo_ids) > 0 /\ data.nzo_ids[1] # "" THEN data.nzo_ids[1]
  ELSE IF Len(data.queue) > 0 THEN data.queue[1]
  ELSE ""

\* A history slot.  nzo_id, nzoId and NzoId are the aliases of the id;
\* Category is the alias of category, JobName, name and Name those of
\* job_name.  "" is an absent (falsy) field.
Slot(nzo_id, NzoId, status, fail_message, category, job_name) ==
  [nzo_id |-> nzo_id, nzoId |-> "", NzoId |-> NzoId, status |-> status,
   fail_message |-> fail_message, category |-> category, job_name |-> job_name,
   Category |-> "", JobName |-> "", name |-> "", Name |-> ""]

\* Variant: the locator is rooted at the requested category.
SlotCategoryRequested(slot, category) == category

\* buildNzbdavStream:  slot?.category || slot?.Category || category
SlotCategory(slot, category) ==
  IF slot.category # "" THEN slot.category
  ELSE IF slot.Category # "" THEN slot.Category
  ELSE category

\* buildNzbdavStream:  slot?.job_name || slot?.JobName || slot?.name || slot?.Name
SlotJobName(slot) ==
  IF slot.job_name # "" THEN slot.job_name
  ELSE IF slot.JobName # "" THEN slot.JobName
  ELSE IF slot.name # "" THEN slot.name
  ELSE slot.Name

\* String.prototype.toLowerCase on the status strings and the header names
\* of the model.
ToLowerCase(s) ==
  CASE s = "Completed" -> "completed"
    [] s = "Transfer-Encoding" -> "transfer-encoding"
    [] s = "FAILED" -> "failed"
    [] s = "Queued" -> "queued"
    [] s = "Downloading" -> "downloading"
    [] OTHER -> s

\* The history responses of the model: no slot; the job's slot alone
\* (completed under an alias of the id, completed without a job name,
\* without a status, failed without a message); the job's slot after, or before,
\* another slot.
Histories ==
  { <<>>,
    <<Slot("", "nzo1", "Completed", "", "", "Job")>>,
    <<Slot("nzo1", "nzoX", "completed", "", "", "")>>,
    <<Slot("nzo1", "", "", "", "", "Job")>>,
    <<Slot("nzo1", "", "failed", "", "", "Job")>>,
    <<Slot("nzoX", "", "completed", "", "", "Other"), Slot("nzo1", "", "Completed", "", "", "Job")>>,
    <<Slot("nzo1", "", "Queued", "", "", "Job"), Slot("nzo1", "", "completed", "", "", "Job")>>,
    <<Slot("nzoX", "", "failed", "other", "", "Other"), Slot("nzo1", "", "Downloading", "", "", "Job")>>,
    <<Slot("nzoX", "", "failed", "other", "", "Other"), Slot("nzo1", "", "FAILED", "boom", "", "Job")>> }

EntryId(entry) ==
  IF entry.nzo_id # "" THEN entry.nzo_id
  ELSE IF entry.nzoId # "" THEN entry.nzoId
  ELSE entry.NzoId

NoSlot == [none |-> TRUE]

\* slots.find(entry => entryId === nzoId): the first matching entry.
FindSlot(slots, nzoId) ==
  LET hits == { i \in 1..Len(slots) : EntryId(slots[i]) = nzoId }
  IN IF hits = {} THEN NoSlot
     ELSE slots[CHOOSE i \in hits : \A j \in hits : i <= j]

\* Variant: a failed job is waited for like a running one.
ClassifyPollFailedGoesOn(slots, nzoId) ==
  LET hits == { i \in 1..Len(slots) : EntryId(slots[i]) = nzoId }
  IN IF \E i \in hits : ToLowerCase(slots[i].status) = "completed"
     THEN "completed" ELSE "continue"

\* waitForNzbdavHistorySlot, one loop body after a good response:
\* "completed", "failed" or "continue" (sleep, then loop).
ClassifyPoll(slots, nzoId) ==
  LET slot == FindSlot(slots, nzoId)
  IN IF slot = NoSlot THEN "continue"
     ELSE IF ToLowerCase(slot.status) = "completed" THEN "completed"
     ELSE IF ToLowerCase(slot.status) = "failed" THEN "failed"
     ELSE "continue"

FailMessage(slot) ==
  IF slot.fail_message # "" THEN slot.fail_message ELSE "Unknown NZBDav error"

\* Variant: the loop ends when the next sleep would reach the deadline.
PollLoopGivesUpEarly(t, deadline) == t + NZBDAV_POLL_INTERVAL_MS < deadline

\* The loop condition  Date.now() < deadline  of waitForNzbdavHistorySlot.
PollLoopContinues(t, deadline) == t < deadline

\* ---------------------------------------------------------------- file share
\* A path: abs is the leading "/", segs the segments from the share's root.
Path(abs, segs) == [abs |-> abs, segs |-> segs]

\* normalizeNzbdavPath: "/" for an empty value, else a leading "/" is added
\* when missing.
normalizeNzbdavPath(p) == Path(TRUE, p.segs)

\* nextPath.replace(/^\/+/, ''): the viewPath of a candidate.
ViewPath(p) == Path(FALSE, p.segs)

RootPath(category, jobName) ==
  normalizeNzbdavPath(Path(TRUE, <<"content", category, jobName>>))

\* An entry as the WebDAV client returns it; size -1 is an absent size.
DavEntry(basename, type, size) == [basename |-> basename, type |-> type, size |-> size]

\* listWebdavDirectory: entries.map(...).
MapEntry(e) ==
  [name |-> e.basename, isDirectory |-> (e.type = "directory"), size |-> e.size]

RECURSIVE MapEntries(_)
MapEntries(es) ==
  IF es = <<>> THEN <<>> ELSE <<MapEntry(Head(es))>> \o MapEntries(Tail(es))

\* posixPath.extname(fileName.toLowerCase()) on the file names of the model.
ExtName(fileName) ==
  CASE fileName \in {"movie.mkv", "a.mkv", "S01E02.mkv", "S01E03.mkv", "extras.mkv"} -> ".mkv"
    [] fileName \in {"b.MP4"} -> ".mp4"
    [] fileName \in {"notes.txt"} -> ".txt"
    [] OTHER -> ""

NZBDAV_VIDEO_EXTENSIONS ==
  {".mp4", ".mkv", ".avi", ".mov", ".wmv", ".flv", ".webm", ".m4v", ".ts", ".m2ts", ".mpg", ".mpeg"}

isVideoFileName(fileName) == ExtName(fileName) \in NZBDAV_VIDEO_EXTENSIONS

\* The <<season, episode>> pairs whose patterns match a file name of the model.
EpisodeMarks(fileName) ==
  CASE fileName = "S01E02.mkv" -> {<<1, 2>>}
    [] fileName = "S01E03.mkv" -> {<<1, 3>>}
    [] OTHER -> {}

fileMatchesEpisode(fileName, requestedEpisode) ==
  IF requestedEpisode = NoEpisode THEN TRUE
  ELSE <<requestedEpisode.season, requestedEpisode.episode>> \in EpisodeMarks(fileName)

NoFile == [none |-> TRUE]

\* The trees the share can hold below a job's content root:
\* relative path -> listing.
ShareEmpty == (<<>> :> <<>>)
ShareNested ==
  (<<>> :> <<DavEntry("sub", "directory", -1), DavEntry("notes.txt", "file", 9)>>) @@
  (<<"sub">> :> <<DavEntry("a.mkv", "file", 3), DavEntry("b.MP4", "file", 3)>>)
Shares == {ShareEmpty, ShareNested}

RelPath(p) == SubSeq(p.segs, 4, Len(p.segs))

\* findBestVideoFile, the state of one traversal.
LocInit(category, jobName) ==
  [queue |-> <<[path |-> RootPath(category, jobName), depth |-> 0]>>,
   visited |-> {}, bestMatch |-> NoFile, bestEpisodeMatch |-> NoFile,
   currentPath |-> Path(TRUE, <<>>), depth |-> 0]

\* Variant: a file of the same size as the best one replaces it.
LocEntryLaterWinsTies(loc, entry, requestedEpisode) ==
  LET entrySize == IF entry.size < 0 THEN 0 ELSE entry.size
      nextPath == normalizeNzbdavPath(Path(TRUE, Append(loc.currentPath.segs, entry.name)))
      matchesEpisode == fileMatchesEpisode(entry.name, requestedEpisode)
      candidate == [name |-> entry.name, size |-> entrySize, matchesEpisode |-> matchesEpisode,
                    absolutePath |-> nextPath, viewPath |-> ViewPath(nextPath)]
      ep == IF matchesEpisode /\ (loc.bestEpisodeMatch = NoFile \/ candidate.size >= loc.bestEpisodeMatch.size)
            THEN candidate ELSE loc.bestEpisodeMatch
      best == IF loc.bestMatch = NoFile \/ candidate.size >= loc.bestMatch.size
              THEN candidate ELSE loc.bestMatch
  IN IF entry.isDirectory
     THEN [loc EXCEPT !.queue = Append(@, [path |-> nextPath, depth |-> loc.depth + 1])]
     ELSE IF entry.name = "" \/ ~isVideoFileName(entry.name) THEN loc
     ELSE [loc EXCEPT !.bestEpisodeMatch = ep, !.bestMatch = best]

\* findBestVideoFile, the body of  for (const entry of entries)  for one entry.
LocEntry(loc, entry, requestedEpisode) ==
  LET entrySize == IF entry.size < 0 THEN 0 ELSE entry.size
      nextPath == normalizeNzbdavPath(Path(TRUE, Append(loc.currentPath.segs, entry.name)))
      matchesEpisode == fileMatchesEpisode(entry.name, requestedEpisode)
      candidate == [name |-> entry.name, size |-> entrySize, matchesEpisode |-> matchesEpisode,
                    absolutePath |-> nextPath, viewPath |-> ViewPath(nextPath)]
      ep == IF matchesEpisode /\ (loc.bestEpisodeMatch = NoFile \/ candidate.size > loc.bestEpisodeMatch.size)
            THEN candidate ELSE loc.bestEpisodeMatch
      best == IF loc.bestMatch = NoFile \/ candidate.size > loc.bestMatch.size
              THEN candidate ELSE loc.bestMatch
  IN IF entry.isDirectory
     THEN [loc EXCEPT !.queue = Append(@, [path |-> nextPath, depth |-> loc.depth + 1])]
     ELSE IF entry.name = "" \/ ~isVideoFileName(entry.name) THEN loc
     ELSE [loc EXCEPT !.bestEpisodeMatch = ep, !.bestMatch = best]

RECURSIVE LocEntries(_, _, _)
LocEntries(loc, entries, requestedEpisode) ==
  IF entries = <<>> THEN loc
  ELSE LET after == { LocEntry(loc, Head(entries), requestedEpisode) }
       IN \* the state after the first entry, then the rest of the entries
          CHOOSE end \in { LocEntries(next, Tail(entries), requestedEpisode) : next \in after } :
            TRUE

\* Variant: a listing that throws ends the traversal.
LocListedFailureAborts(loc, listOk, entries, requestedEpisode) ==
  IF listOk THEN LocEntries(loc, entries, requestedEpisode)
  ELSE [loc EXCEPT !.queue = <<>>]

\* findBestVideoFile, one   try { entries = await listWebdavDirectory(...) }
\* catch { continue }   and the loop over the entries: a listing that throws
\* leaves the queue and the best files as they are.
LocListed(loc, listOk, entries, requestedEpisode) ==
  IF listOk THEN LocEntries(loc, entries, requestedEpisode) ELSE loc

\* Variant: directories one level below the cap are still listed.
LocSkipsDeeper(loc, head) ==
  \/ head.depth > NZBDAV_MAX_DIRECTORY_DEPTH + 1
  \/ head.path \in loc.visited

\* Variant: a path already visited is listed again.
LocSkipsNoVisited(loc, head) == head.depth > NZBDAV_MAX_DIRECTORY_DEPTH

\* findBestVideoFile, the two  continue  at the head of the while loop: an
\* item deeper than the cap or with a path already visited is dropped.
LocSkips(loc, head) ==
  \/ head.depth > NZBDAV_MAX_DIRECTORY_DEPTH
  \/ head.path \in loc.visited

\* findBestVideoFile, the head of the while loop: shift the queue until a
\* directory is to be listed (listing TRUE) or the queue is empty.
RECURSIVE LocShift(_)
LocShift(loc) ==
  IF loc.queue = <<>> THEN [loc |-> loc, listing |-> FALSE]
  ELSE LET head == Head(loc.queue)
           rest == [loc EXCEPT !.queue = Tail(@)]
       IN IF LocSkips(loc, head) THEN LocShift(rest)
          ELSE [loc |-> [rest EXCEPT !.visited = @ \cup {head.path},
                                     !.currentPath = head.path,
                                     !.depth = head.depth],
                listing |-> TRUE]

\* Variant: the largest video wins whatever the episode.
LocResultLargestOverall(loc) == loc.bestMatch

\* return bestEpisodeMatch || bestMatch
LocResult(loc) ==
  IF loc.bestEpisodeMatch # NoFile THEN loc.bestEpisodeMatch ELSE loc.bestMatch

\* --------------------------------------------------------------------- cache
NoEntry == [status |-> "none"]
\* Variant: the pending entry carries an expiry like the others.
PendingEntryExpiring(b) ==
  [status |-> "pending", promise |-> b, expiresAt |-> NZBDAV_CACHE_TTL_MS]

PendingEntry(b) == [status |-> "pending", promise |-> b]
ReadyEntry(data, expiresAt) == [status |-> "ready", data |-> data, expiresAt |-> expiresAt]
FailedEntry(error, expiresAt) == [status |-> "failed", error |-> error, expiresAt |-> expiresAt]

\* NZBDAV_CACHE_TTL_MS > 0 ? Date.now() + NZBDAV_CACHE_TTL_MS : null
\* (NZBDAV_CACHE_TTL_MS is positive, so the null branch is never taken)
ExpiresAt(t) == t + NZBDAV_CACHE_TTL_MS

\* Variant: an entry lives through the instant of its expiresAt.
ExpiredLate(entry, t) ==
  /\ "expiresAt" \in DOMAIN entry
  /\ entry.expiresAt < t

\* Variant: an entry without expiresAt is swept as well.
ExpiredAnyEntry(entry, t) ==
  \/ "expiresAt" \notin DOMAIN entry /\ entry.status = "pending"
  \/ "expiresAt" \in DOMAIN entry /\ entry.expiresAt <= t

\* Variant: every entry that has an expiresAt is swept, whatever the time.
ExpiredWhateverTheTime(entry, t) == "expiresAt" \in DOMAIN entry

\* entry.expiresAt && entry.expiresAt <= now : a pending entry has no
\* expiresAt.
Expired(entry, t) ==
  /\ "expiresAt" \in DOMAIN entry
  /\ entry.expiresAt <= t

cleanupNzbdavCache(c, t) ==
  IF NZBDAV_CACHE_TTL_MS <= 0 THEN c
  ELSE [k \in DOMAIN c |-> IF Expired(c[k], t) THEN NoEntry ELSE c[k]]

\* Variant: the catch block deletes the entry whatever the error.
CatchCommitNeverCaches(c, cacheKey, error, t) ==
  [c EXCEPT ![cacheKey] = NoEntry]

\* Variant: the catch block stores a failed entry whatever the error.
CatchCommitAlwaysCaches(c, cacheKey, error, t) ==
  [c EXCEPT ![cacheKey] = FailedEntry(error, ExpiresAt(t))]

\* Variant: the catch block leaves the cache as it is.
CatchCommitKeepsPending(c, cacheKey, error, t) == c

\* getOrCreateNzbdavStream, the catch block: what it leaves in the cache.
CatchCommit(c, cacheKey, error, t) ==
  IF error.isNzbdavFailure
  THEN [c EXCEPT ![cacheKey] = FailedEntry(error, ExpiresAt(t))]
  ELSE [c EXCEPT ![cacheKey] = NoEntry]

\* Variant: the ready entry is not stored before the promise is fulfilled.
ReadyCommitDeferred(c, cacheKey, data, t) == c

\* getOrCreateNzbdavStream, the inner async function after  await builder().
ReadyCommit(c, cacheKey, data, t) ==
  [c EXCEPT ![cacheKey] = ReadyEntry(data, ExpiresAt(t))]

\* --------------------------------------------------------------------- state
\* Time.  The code reads the clock with Date.now() and only ever compares
\* it with timestamps it computed earlier from Date.now(), so the model keeps
\* every timestamp relative to the present: Date.now() is the origin, and
\* when the clock advances by d every stored timestamp moves back by d.  A
\* timestamp more than a millisecond in the past is kept as one millisecond
\* in the past.
DateNow == 0

Back(timestamp, d) ==
  IF timestamp - d < DateNow - 1 THEN DateNow - 1 ELSE timestamp - d

VARIABLES
  ticks,       \* how many times the clock has been seen to advance
  cfg,         \* the NZBDav configuration of the process
  cache,       \* nzbdavStreamCache: cache key -> entry
  req,         \* the inbound requests (one handleNzbdavStream call each)
  build,       \* the builds; build b is the one request b started
  promise,     \* promise b: the promise of the inner async function of build b
  microtasks,  \* the microtask queue of the event loop
  eventLog,    \* the last event of the outside world, when the run is logged
  call         \* one function of the program called on its own: inputs, position, result

vars == <<ticks, cfg, cache, req, build, promise, microtasks, eventLog, call>>

NoLoc == [none |-> TRUE]

IdleReq ==
  [pc |-> "idle", cacheKey |-> <<>>, found |-> "", promise |-> 0, inflight |-> 0,
   outcome |-> NoOutcome]

\* A request whose handler has returned.
DoneReq == [IdleReq EXCEPT !.pc = "done"]

IdleBuild ==
  [pc |-> "none", cacheKey |-> <<>>, category |-> "", requestedEpisode |-> NoEpisode,
   nzoId |-> "", deadline |-> 0, wakeAt |-> 0,
   addurlCalls |-> 0, polled |-> FALSE, listed |-> FALSE,
   slotCategory |-> "", slotJobName |-> "", loc |-> NoLoc, outcome |-> NoOutcome]

Job(kind, r, p) == [kind |-> kind, r |-> r, p |-> p]

\* eventLog: off, empty, the history response the poller of build b
\* received (good FALSE: axios threw or the response has no truthy status),
\* the disconnect of the client of request r, or the addurl response build b
\* received (transportOk FALSE: axios threw), or the failure of the file
\* share while request r with key k was proxied.
LogOff == [on |-> FALSE]
LogEmpty == [on |-> TRUE, kind |-> "none"]
LoggedHistory(b, good, slots) ==
  [on |-> TRUE, kind |-> "history", b |-> b, good |-> good, slots |-> slots]
LoggedDisconnect(r) == [on |-> TRUE, kind |-> "disconnect", r |-> r]
LoggedAddUrl(b, transportOk, data) ==
  [on |-> TRUE, kind |-> "addurl", b |-> b, transportOk |-> transportOk, data |-> data]

LoggedProxyError(r, k) == [on |-> TRUE, kind |-> "proxyError", r |-> r, k |-> k]

\* No function is called on its own.
NoCall == [fn |-> "none"]

Init ==
  /\ ticks = 0
  /\ cfg \in Configurations
  /\ cache = [k \in Keys |-> NoEntry]
  /\ req = [r \in Req |-> IdleReq]
  /\ build = [b \in Req |-> IdleBuild]
  /\ promise = [b \in Req |-> [state |-> "none", reactions |-> <<>>]]
  /\ microtasks = <<>>
  /\ eventLog = LogOff
  /\ call = NoCall

\* A macrotask runs only once the microtask queue is drained.
MacrotaskTurn == microtasks = <<>>

\* The builds of a key whose promise is not settled.
InFlight(k) == { b \in Req : build[b].cacheKey = k /\ promise[b].state = "pending" }

\* ------------------------------------------------------------------ pipeline
\* buildNzbdavStream settles with an outcome: the continuation of the inner
\* async function of getOrCreateNzbdavStream becomes a microtask.
Settle(b, rec, outcome) ==
  /\ build' = [build EXCEPT ![b] = [rec EXCEPT !.pc = "settled", !.outcome = outcome,
                                               !.loc = NoLoc, !.wakeAt = 0, !.deadline = 0,
                                               !.slotCategory = "", !.slotJobName = ""]]
  /\ microtasks' = Append(microtasks, Job("iife", b, b))

\* waitForNzbdavHistorySlot, the head of the while loop at time now.
PollerLoop(b, rec) ==
  IF PollLoopContinues(DateNow, rec.deadline)
  THEN /\ build' = [build EXCEPT ![b] = [rec EXCEPT !.pc = "polling", !.polled = TRUE]]
       /\ UNCHANGED microtasks
  ELSE Settle(b, rec, Err(MkError(b, "timeout")))

\* getOrCreateNzbdavStream: which branch the entry found takes.
\* Variant: a pending entry is not joined.
LookupBranchNoJoin(existing) ==
  IF existing.status \in {"ready", "failed"} THEN existing.status ELSE "miss"

\* Variant: a failed entry is not rethrown.
LookupBranchNoFailed(existing) ==
  IF existing.status \in {"ready", "pending"} THEN existing.status ELSE "miss"

LookupBranch(existing) ==
  IF existing.status \in {"ready", "pending", "failed"} THEN existing.status ELSE "miss"

\* handleNzbdavStream up to its first suspension: cache key, lazy eviction,
\* lookup, and on a miss the start of the build and the pending entry.
\* Requests arrive in the order of their numbers, and the URL of the first
\* one is called "u1".
Arrive(r, downloadUrl, type, requestedEpisode) ==
  /\ MacrotaskTurn
  /\ req[r].pc = "idle"
  /\ \A q \in 1..(r - 1) : req[q].pc # "idle"
  /\ r = 1 => downloadUrl = "u1"
  /\ LET category == getNzbdavCategory(type)
         cacheKey == CacheKey(downloadUrl, category, requestedEpisode)
         swept == cleanupNzbdavCache(cache, DateNow)
         existing == swept[cacheKey]
         branch == LookupBranch(existing)
         inflight == IF InFlight(cacheKey) = {} THEN 0 ELSE CHOOSE b \in InFlight(cacheKey) : TRUE
         me == [IdleReq EXCEPT !.pc = "awaiting", !.cacheKey = cacheKey,
                               !.found = branch, !.inflight = inflight]
     IN CASE branch = "ready" ->
               /\ req' = [req EXCEPT ![r] = [me EXCEPT !.outcome = Ok(existing.data)]]
               /\ microtasks' = <<Job("handler", r, 0)>>
               /\ cache' = swept
               /\ UNCHANGED <<build, promise>>
          [] branch = "failed" ->
               /\ req' = [req EXCEPT ![r] = [me EXCEPT !.outcome = Err(existing.error)]]
               /\ microtasks' = <<Job("handler", r, 0)>>
               /\ cache' = swept
               /\ UNCHANGED <<build, promise>>
          [] branch = "pending" ->
               /\ req' = [req EXCEPT ![r] = [me EXCEPT !.promise = existing.promise]]
               /\ microtasks' = <<Job("thenable", r, existing.promise)>>
               /\ cache' = swept
               /\ UNCHANGED <<build, promise>>
          [] OTHER ->
               LET rec == [IdleBuild EXCEPT !.cacheKey = cacheKey, !.category = category,
                                            !.requestedEpisode = requestedEpisode]
               IN /\ req' = [req EXCEPT ![r] = [me EXCEPT !.promise = r]]
                  /\ promise' = [promise EXCEPT ![r] =
                                   [state |-> "pending", reactions |-> <<Job("init", r, r)>>]]
                  /\ cache' = [swept EXCEPT ![cacheKey] = PendingEntry(r)]
                  /\ IF SubmitPrecheck(cfg, downloadUrl, category) # "ok"
                     THEN Settle(r, rec, Err(MkError(r, "config")))
                     ELSE /\ build' = [build EXCEPT ![r] =
                                         [rec EXCEPT !.pc = "submitting", !.addurlCalls = @ + 1]]
                          /\ UNCHANGED microtasks
  /\ UNCHANGED <<ticks, cfg, eventLog, call>>

\* Variant: a response without an nzo id is accepted.
AddUrlVerdictKeepsGoing(transportOk, data) ==
  IF ~transportOk \/ ~data.status THEN "throw" ELSE "queued"

\* addNzbToNzbdav after the addurl call: it throws when axios threw, when the
\* response has no truthy status, or when it carries no nzo id.
AddUrlVerdict(transportOk, data) ==
  IF ~transportOk THEN "throw"
  ELSE IF ~data.status THEN "throw"
  ELSE IF ExtractNzoId(data) = "" THEN "throw"
  ELSE "queued"

\* addNzbToNzbdav after the addurl call returned, then the entry into
\* waitForNzbdavHistorySlot.  transportOk FALSE: axios threw.
AddUrlReturns(b, transportOk, data) ==
  /\ MacrotaskTurn
  /\ build[b].pc = "submitting"
  /\ LET rec == build[b]
         nzoId == ExtractNzoId(data)
     IN IF AddUrlVerdict(transportOk, data) = "throw"
        THEN Settle(b, rec, Err(MkError(b, "submit")))
        ELSE PollerLoop(b, [rec EXCEPT !.nzoId = nzoId,
                                       !.deadline = DateNow + NZBDAV_POLL_TIMEOUT_MS])
  /\ eventLog' = IF eventLog.on THEN LoggedAddUrl(b, transportOk, data) ELSE eventLog
  /\ UNCHANGED <<ticks, cfg, cache, req, promise, call>>

\* buildNzbdavStream after the poller returned a slot: the start of
\* findBestVideoFile with its first listing.
StartLocate(b, rec, slot) ==
  LET slotCategory == SlotCategory(slot, rec.category)
      slotJobName == SlotJobName(slot)
      sh == LocShift(LocInit(slotCategory, slotJobName))
  IN IF slotJobName = "" THEN Settle(b, rec, Err(MkError(b, "nojobname")))
     ELSE /\ build' = [build EXCEPT ![b] =
                         [rec EXCEPT !.pc = "listing", !.slotCategory = slotCategory,
                                     !.slotJobName = slotJobName, !.loc = sh.loc,
                                     !.listed = TRUE, !.deadline = 0]]
          /\ UNCHANGED microtasks

\* Variant: a response without a truthy status is read as an empty history.
HistoryVerdictTolerant(transportOk, status) ==
  IF ~transportOk THEN "throw" ELSE "read"

\* waitForNzbdavHistorySlot after the history call: axios threw (transport
\* error, or a status of 500 and above), or the response has no truthy
\* status; both leave the poller with the error.
HistoryVerdict(transportOk, status) ==
  IF ~transportOk THEN "throw"
  ELSE IF ~status THEN "throw"
  ELSE "read"

\* waitForNzbdavHistorySlot, one history response.
HistoryReturns(b, transportOk, status, slots) ==
  /\ MacrotaskTurn
  /\ build[b].pc = "polling"
  /\ LET rec == build[b]
         class == ClassifyPoll(slots, rec.nzoId)
         slot == FindSlot(slots, rec.nzoId)
     IN IF HistoryVerdict(transportOk, status) = "throw"
        THEN Settle(b, rec, Err(MkError(b, "api")))
        ELSE CASE class = "completed" -> StartLocate(b, rec, slot)
               [] class = "failed" ->
                    Settle(b, rec, Err(MkFailureError(b, FailMessage(slot), rec.nzoId, rec.category)))
               [] OTHER ->
                    /\ build' = [build EXCEPT ![b] =
                                   [rec EXCEPT !.pc = "sleeping",
                                               !.wakeAt = DateNow + NZBDAV_POLL_INTERVAL_MS]]
                    /\ UNCHANGED microtasks
  /\ eventLog' = IF eventLog.on THEN LoggedHistory(b, transportOk /\ status, slots) ELSE eventLog
  /\ UNCHANGED <<ticks, cfg, cache, req, promise, call>>

\* The timer of  await sleep(NZBDAV_POLL_INTERVAL_MS)  fires.
Wake(b) ==
  /\ MacrotaskTurn
  /\ build[b].pc = "sleeping"
  /\ DateNow >= build[b].wakeAt
  /\ PollerLoop(b, build[b])
  /\ UNCHANGED <<ticks, cfg, cache, req, promise, eventLog, call>>

\* findBestVideoFile, one listing returns (listOk FALSE: it threw), up to
\* the next listing or the end of the traversal.  share is the tree the
\* file share holds below the job's content root when it answers.
ListReturns(b, listOk, share) ==
  /\ MacrotaskTurn
  /\ build[b].pc = "listing"
  /\ LET rec == build[b]
         rel == RelPath(rec.loc.currentPath)
         entries == IF rel \in DOMAIN share THEN MapEntries(share[rel]) ELSE <<>>
         sh == LocShift(LocListed(rec.loc, listOk, entries, rec.requestedEpisode))
         bestFile == LocResult(sh.loc)
     IN IF sh.listing
        THEN /\ build' = [build EXCEPT ![b] = [rec EXCEPT !.loc = sh.loc, !.listed = TRUE]]
             /\ UNCHANGED microtasks
        ELSE IF bestFile = NoFile THEN Settle(b, rec, Err(MkError(b, "noplayable")))
        ELSE Settle(b, rec, Ok([obj |-> b, nzoId |-> rec.nzoId, category |-> rec.slotCategory,
                                jobName |-> rec.slotJobName,
                                viewPath |-> bestFile.viewPath, size |-> bestFile.size]))
  /\ UNCHANGED <<ticks, cfg, cache, req, promise, eventLog, call>>

\* ---------------------------------------------------------------- microtasks
\* getOrCreateNzbdavStream, the inner async function resumes after
\*  await builder() : on success it stores the ready entry and fulfils the
\* promise; on an error the promise is rejected.  The reactions of the
\* promise become microtasks in the order they subscribed.
RunIife(b) ==
  /\ microtasks # <<>>
  /\ Head(microtasks) = Job("iife", b, b)
  /\ LET out == build[b].outcome
     IN /\ cache' = IF out.kind = "ok"
                    THEN ReadyCommit(cache, build[b].cacheKey, out.data, DateNow)
                    ELSE cache
        /\ promise' = [promise EXCEPT ![b] =
                         [state |-> IF out.kind = "ok" THEN "fulfilled" ELSE "rejected",
                          reactions |-> <<>>]]
        /\ microtasks' = Tail(microtasks) \o promise[b].reactions
  /\ UNCHANGED <<ticks, cfg, req, build, eventLog, call>>

\* getOrCreateNzbdavStream resumes in the initiator after  await promise :
\* returns the data, or runs the catch block and rethrows.
RunInit(r) ==
  /\ microtasks # <<>>
  /\ Head(microtasks) = Job("init", r, r)
  /\ LET out == build[r].outcome
     IN /\ cache' = IF promise[r].state = "rejected"
                    THEN CatchCommit(cache, req[r].cacheKey, out.error, DateNow)
                    ELSE cache
        /\ req' = [req EXCEPT ![r].outcome = out]
        /\ microtasks' = Append(Tail(microtasks), Job("handler", r, 0))
  /\ UNCHANGED <<ticks, cfg, build, promise, eventLog, call>>

\* A waiter's getOrCreateNzbdavStream returned existing.promise: its own
\* promise subscribes to it.
RunThenable(w, p) ==
  /\ microtasks # <<>>
  /\ Head(microtasks) = Job("thenable", w, p)
  /\ IF promise[p].state = "pending"
     THEN /\ promise' = [promise EXCEPT ![p].reactions = Append(@, Job("adopt", w, p))]
          /\ microtasks' = Tail(microtasks)
     ELSE /\ microtasks' = Append(Tail(microtasks), Job("adopt", w, p))
          /\ UNCHANGED promise
  /\ UNCHANGED <<ticks, cfg, cache, req, build, eventLog, call>>

\* The waiter's promise settles as the build's promise did.
RunAdopt(w, p) ==
  /\ microtasks # <<>>
  /\ Head(microtasks) = Job("adopt", w, p)
  /\ req' = [req EXCEPT ![w].outcome = build[p].outcome]
  /\ microtasks' = Append(Tail(microtasks), Job("handler", w, 0))
  /\ UNCHANGED <<ticks, cfg, cache, build, promise, eventLog, call>>

\* The promise of build p is referenced by the pending entry of the cache
\* and by the requests still awaiting it.
Referenced(p, r) ==
  \/ \E k \in Keys : cache[k] = PendingEntry(p)
  \/ \E q \in Req \ {r} : req[q].pc = "awaiting" /\ req[q].promise = p

\* A build nobody references any more: its record is garbage.
Collected == [IdleBuild EXCEPT !.pc = "settled"]

\* handleNzbdavStream resumes after  await getOrCreateNzbdavStream(...) :
\* proxyNzbdavStream on a result, streamFailureVideo on a job failure, the
\* error response on any other error.
RunHandler(r) ==
  /\ microtasks # <<>>
  /\ Head(microtasks) = Job("handler", r, 0)
  /\ LET out == req[r].outcome
         p == req[r].promise
     IN /\ req' = [req EXCEPT ![r] =
                     IF out.kind = "ok" THEN [@ EXCEPT !.pc = "proxying"]
                     ELSE IF out.error.isNzbdavFailure THEN [@ EXCEPT !.pc = "fallback"]
                     ELSE DoneReq]
        /\ build' = IF p # 0 /\ ~Referenced(p, r)
                    THEN [build EXCEPT ![p] = Collected]
                    ELSE build
  /\ microtasks' = Tail(microtasks)
  /\ UNCHANGED <<ticks, cfg, cache, promise, eventLog, call>>

\* --------------------------------------------------------------------- proxy
\* proxyNzbdavStream or streamFailureVideo comes to its end: the bytes are
\* sent, or the error response is.
ResponseEnds(r) ==
  /\ MacrotaskTurn
  /\ req[r].pc \in {"proxying", "fallback"}
  /\ req' = [req EXCEPT ![r] = DoneReq]
  /\ UNCHANGED <<ticks, cfg, cache, build, promise, microtasks, eventLog, call>>

\* Variant: an error of the proxy drops the entry of the request's key, as
\* an error of the build does.
ProxyErrorCacheEvicts(c, k) == [c EXCEPT ![k] = NoEntry]

\* What an error of proxyNzbdavStream does to the cache: nothing (the catch
\* block of handleNzbdavStream answers or ends the response and touches no
\* entry; only getOrCreateNzbdavStream writes the cache).
ProxyErrorCache(c, k) == c

\* The file share fails while request r is proxied, before the first byte
\* or while the stream is piped: axios.request or the pipeline throws, the
\* catch block of the handler sends the error response or ends the
\* connection, and the handler returns.
ProxyFails(r) ==
  /\ MacrotaskTurn
  /\ req[r].pc = "proxying"
  /\ req' = [req EXCEPT ![r] = DoneReq]
  /\ cache' = ProxyErrorCache(cache, req[r].cacheKey)
  /\ eventLog' = IF eventLog.on THEN LoggedProxyError(r, req[r].cacheKey) ELSE eventLog
  /\ UNCHANGED <<ticks, cfg, build, promise, microtasks, call>>

\* Variant: a disconnect drops the entry of the request's key.
DisconnectCacheEvicts(c, k) == [c EXCEPT ![k] = NoEntry]

\* What a client disconnect does to the cache: nothing (the code listens to
\* no close event of the request; proxyNzbdavStream and streamFileResponse
\* only swallow ERR_STREAM_PREMATURE_CLOSE).
DisconnectCache(c, k) == c

\* The client of request r goes away.  A request that is streaming ends as
\* a normal termination; one that awaits the build goes on awaiting it, and
\* nothing in the program records that its client is gone.
Disconnect(r) ==
  /\ MacrotaskTurn
  /\ req[r].pc \in {"awaiting", "proxying", "fallback"}
  /\ req' = [req EXCEPT ![r] = IF req[r].pc = "awaiting" THEN @ ELSE DoneReq]
  /\ cache' = DisconnectCache(cache, req[r].cacheKey)
  /\ eventLog' = IF eventLog.on THEN LoggedDisconnect(r) ELSE eventLog
  /\ UNCHANGED <<ticks, cfg, build, promise, microtasks, call>>

\* ---------------------------------------------------------------------- time
\* The clock is read by cleanupNzbdavCache, by the commits and by the poller
\* only.  Its advance is modelled where a later read can tell it: while a
\* poller holds a deadline, or while an entry with an expiry can still be
\* looked up by a request to come.
ClockObserved ==
  \/ \E b \in Req : build[b].pc \in {"polling", "sleeping"}
  \/ /\ \E k \in Keys : cache[k].status \in {"ready", "failed"}
     /\ \E r \in Req : req[r].pc = "idle"

Tick(d) ==
  /\ MacrotaskTurn
  /\ ClockObserved
  /\ ticks < MaxTicks
  /\ ticks' = ticks + 1
  /\ cache' = [k \in Keys |->
                 IF cache[k].status \in {"ready", "failed"}
                 THEN [cache[k] EXCEPT !.expiresAt = Back(@, d)]
                 ELSE cache[k]]
  /\ build' = [b \in Req |->
                 IF build[b].pc \in {"polling", "sleeping"}
                 THEN [build[b] EXCEPT !.deadline = Back(@, d),
                                       !.wakeAt = IF build[b].pc = "sleeping" THEN Back(@, d) ELSE @]
                 ELSE build[b]]
  /\ UNCHANGED <<cfg, req, promise, microtasks, eventLog, call>>

Next ==
  \/ \E r \in Req, u \in DownloadUrls, t \in Types, e \in Episodes : Arrive(r, u, t, e)
  \/ \E b \in Req, d \in AddUrlResponses : AddUrlReturns(b, TRUE, d)
  \/ \E b \in Req : AddUrlReturns(b, FALSE, AddUrlData(FALSE, "", "", "", <<>>, <<>>))
  \/ \E b \in Req, h \in Histories : HistoryReturns(b, TRUE, TRUE, h)
  \/ \E b \in Req, ok \in BOOLEAN : HistoryReturns(b, ok, ~ok, <<>>)
  \/ \E b \in Req : Wake(b)
  \/ \E b \in Req, sh \in Shares : ListReturns(b, TRUE, sh)
  \/ \E b \in Req : ListReturns(b, FALSE, ShareEmpty)
  \/ \E b \in Req : RunIife(b)
  \/ \E r \in Req : RunInit(r)
  \/ \E w \in Req, p \in Req : RunThenable(w, p)
  \/ \E w \in Req, p \in Req : RunAdopt(w, p)
  \/ \E r \in Req : RunHandler(r)
  \/ \E r \in Req : ResponseEnds(r)
  \/ \E r \in Req : Disconnect(r)
  \/ \E r \in Req : ProxyFails(r)
  \/ \E d \in ClockSteps : Tick(d)

Spec == Init /\ [][Next]_vars

\* The requests that are watched.
Watched == {1, 2}

\* The same program with the events of the outside world logged, from the state in
\* which the requests that are not watched have been answered already, each
\* with an error that is not cached (their builds rejected and collected,
\* no entry left).
InitLogged ==
  /\ ticks = 0
  /\ cfg \in Configurations
  /\ cache = [k \in Keys |-> NoEntry]
  /\ req = [r \in Req |-> IF r \in Watched THEN IdleReq ELSE DoneReq]
  /\ build = [b \in Req |-> IF b \in Watched THEN IdleBuild ELSE Collected]
  /\ promise = [b \in Req |-> [state |-> IF b \in Watched THEN "none" ELSE "rejected",
                               reactions |-> <<>>]]
  /\ microtasks = <<>>
  /\ eventLog = LogEmpty
  /\ call = NoCall

SpecLogged == InitLogged /\ [][Next]_vars

\* ------------------------------------------------------------------ progress
\* The clock goes on beyond the advances counted in ticks: while a poller
\* sleeps, time passes up to its deadline.
ClockRuns ==
  /\ MacrotaskTurn
  /\ ticks >= MaxTicks
  /\ \E b \in Req : build[b].pc = "sleeping"
  /\ cache' = [k \in Keys |->
                 IF cache[k].status \in {"ready", "failed"}
                 THEN [cache[k] EXCEPT !.expiresAt = Back(@, NZBDAV_POLL_TIMEOUT_MS)]
                 ELSE cache[k]]
  /\ build' = [b \in Req |->
                 IF build[b].pc \in {"polling", "sleeping"}
                 THEN [build[b] EXCEPT
                         !.deadline = Back(@, NZBDAV_POLL_TIMEOUT_MS),
                         !.wakeAt = IF build[b].pc = "sleeping"
                                    THEN Back(@, NZBDAV_POLL_TIMEOUT_MS) ELSE @]
                 ELSE build[b]]
  /\ UNCHANGED <<ticks, cfg, req, promise, microtasks, eventLog, call>>

\* The steps a build and its callers wait for: every outbound call returns
\* or fails, the timers fire and the clock advances, and the event loop runs
\* the queued continuations.
BuildStep ==
  \/ \E b \in Req, d \in AddUrlResponses : AddUrlReturns(b, TRUE, d)
  \/ \E b \in Req : AddUrlReturns(b, FALSE, AddUrlData(FALSE, "", "", "", <<>>, <<>>))
  \/ \E b \in Req, h \in Histories : HistoryReturns(b, TRUE, TRUE, h)
  \/ \E b \in Req, ok \in BOOLEAN : HistoryReturns(b, ok, ~ok, <<>>)
  \/ \E b \in Req : Wake(b)
  \/ \E b \in Req, sh \in Shares : ListReturns(b, TRUE, sh)
  \/ \E b \in Req : ListReturns(b, FALSE, ShareEmpty)
  \/ \E b \in Req : RunIife(b)
  \/ \E r \in Req : RunInit(r)
  \/ \E w \in Req, p \in Req : RunThenable(w, p)
  \/ \E w \in Req, p \in Req : RunAdopt(w, p)
  \/ \E r \in Req : RunHandler(r)
  \/ \E d \in ClockSteps : Tick(d)
  \/ ClockRuns

\* The program from the state in which the requests that are not watched
\* have been answered, without the log.
InitLive ==
  /\ ticks = 0
  /\ cfg \in Configurations
  /\ cache = [k \in Keys |-> NoEntry]
  /\ req = [r \in Req |-> IF r \in Watched THEN IdleReq ELSE DoneReq]
  /\ build = [b \in Req |-> IF b \in Watched THEN IdleBuild ELSE Collected]
  /\ promise = [b \in Req |-> [state |-> IF b \in Watched THEN "none" ELSE "rejected",
                               reactions |-> <<>>]]
  /\ microtasks = <<>>
  /\ eventLog = LogOff
  /\ call = NoCall

NextLive == Next \/ ClockRuns

SpecLive == InitLive /\ [][NextLive]_vars /\ WF_vars(BuildStep)

\* ------------------------------------------------- the Submitter on its own
\* The pipeline at rest while a function is called on its own.
PipelineAtRest ==
  /\ ticks = 0
  /\ cache = [k \in Keys |-> NoEntry]
  /\ req = [r \in Req |-> IdleReq]
  /\ build = [b \in Req |-> IdleBuild]
  /\ promise = [b \in Req |-> [state |-> "none", reactions |-> <<>>]]
  /\ microtasks = <<>>
  /\ eventLog = LogOff

pipelineVars == <<ticks, cache, req, build, promise, microtasks, eventLog>>

\* String.prototype.trim on the values of the model.
Trim(v) == IF v = " " THEN "" ELSE v

\* The environment: each of the three variables unset (""), blank, or set.
Environments ==
  [NZBDAV_URL : {"", "http://dav"}, NZBDAV_API_KEY : {"", "key"},
   NZBDAV_WEBDAV_URL : {"", " ", "http://dav"}]

\* The settings as the process reads them at start: the file-share URL
\* falls back to the manager URL when its variable is unset.
ReadConfiguration(env) ==
  [url |-> Trim(env.NZBDAV_URL),
   apiKey |-> Trim(env.NZBDAV_API_KEY),
   webdavUrl |-> Trim(IF env.NZBDAV_WEBDAV_URL # "" THEN env.NZBDAV_WEBDAV_URL
                      ELSE Trim(env.NZBDAV_URL))]

\* Every way the three settings can be present or absent.
AllConfigurations == { ReadConfiguration(env) : env \in Environments }

\* addNzbToNzbdav(nzbUrl, category, jobLabel) is called.
SubmitterCall(nzbUrl, category) ==
  [fn |-> "addNzbToNzbdav", pc |-> "called", nzbUrl |-> nzbUrl, category |-> category,
   networkCalls |-> 0, response |-> <<>>, result |-> NoOutcome]

InitSubmitter ==
  /\ PipelineAtRest
  /\ cfg \in AllConfigurations
  /\ call \in { SubmitterCall(u, c) : u \in {"", "u1", "u2"},
                                       c \in {"", NZBDAV_CATEGORY_MOVIES, NZBDAV_CATEGORY_SERIES} }

\* addNzbToNzbdav up to its await: the checks, then the addurl call.
SubmitterChecks ==
  /\ call.fn = "addNzbToNzbdav" /\ call.pc = "called"
  /\ LET verdict == SubmitPrecheck(cfg, call.nzbUrl, call.category)
     IN call' = IF verdict # "ok"
                THEN [call EXCEPT !.pc = "thrown",
                                  !.result = [kind |-> "err", message |-> verdict]]
                ELSE [call EXCEPT !.pc = "requested", !.networkCalls = @ + 1]
  /\ UNCHANGED <<cfg, pipelineVars>>

\* addNzbToNzbdav after the addurl call returned (transportOk FALSE: axios
\* threw).
SubmitterResponds(transportOk, data) ==
  /\ call.fn = "addNzbToNzbdav" /\ call.pc = "requested"
  /\ call' = IF AddUrlVerdict(transportOk, data) = "throw"
             THEN [call EXCEPT !.pc = "thrown", !.response = <<transportOk, data>>,
                               !.result = [kind |-> "err", message |-> "submit"]]
             ELSE [call EXCEPT !.pc = "returned", !.response = <<transportOk, data>>,
                               !.result = [kind |-> "ok", nzoId |-> ExtractNzoId(data)]]
  /\ UNCHANGED <<cfg, pipelineVars>>

NextSubmitter ==
  \/ SubmitterChecks
  \/ \E ok \in BOOLEAN, d \in AddUrlResponses : SubmitterResponds(ok, d)

SpecSubmitter == InitSubmitter /\ [][NextSubmitter]_vars

\* --------------------------------------------------- the Locator on its own
\* A remote tree: dirs gives the listing of each directory, links the
\* directory an entry of a directory leads to (a link back to a directory
\* above makes a cycle of paths).
Tree(dirs, links) == [dirs |-> dirs, links |-> links]

\* A season next to a larger extra, with a larger copy of one episode below.
TreeSeason ==
  Tree((0 :> <<DavEntry("S01E02.mkv", "file", 2), DavEntry("extras.mkv", "file", 5),
               DavEntry("S01E03.mkv", "file", 3), DavEntry("notes.txt", "file", 9),
               DavEntry("sub", "directory", -1)>>) @@
       (1 :> <<DavEntry("S01E02.mkv", "file", 4), DavEntry("a.mkv", "file", -1)>>),
       (<<0, "sub">> :> 1))

\* Two sibling directories, one of them with a directory of its own.
TreeSiblings ==
  Tree((0 :> <<DavEntry("sub", "directory", -1), DavEntry("d", "directory", -1),
               DavEntry("notes.txt", "file", 9)>>) @@
       (1 :> <<DavEntry("a.mkv", "file", 3), DavEntry("d", "directory", -1)>>) @@
       (2 :> <<DavEntry("b.MP4", "file", 7)>>) @@
       (3 :> <<DavEntry("movie.mkv", "file", 5)>>),
       (<<0, "sub">> :> 1) @@ (<<1, "d">> :> 2) @@ (<<0, "d">> :> 3))

\* A directory reported twice by its parent and holding a link to itself.
TreeLoop ==
  Tree((0 :> <<DavEntry("d", "directory", -1), DavEntry("d", "directory", -1),
               DavEntry("movie.mkv", "file", 1)>>) @@
       (1 :> <<DavEntry("d", "directory", -1), DavEntry("a.mkv", "file", 2)>>),
       (<<0, "d">> :> 1) @@ (<<1, "d">> :> 1))

\* A chain of directories two levels deeper than the cap, with the largest
\* video one level below the cap.
TreeDeep ==
  Tree([n \in 0..(NZBDAV_MAX_DIRECTORY_DEPTH + 2) |->
          IF n = NZBDAV_MAX_DIRECTORY_DEPTH + 2 THEN <<>>
          ELSE IF n = NZBDAV_MAX_DIRECTORY_DEPTH + 1
          THEN <<DavEntry("movie.mkv", "file", 9), DavEntry("d", "directory", -1)>>
          ELSE IF n = NZBDAV_MAX_DIRECTORY_DEPTH
          THEN <<DavEntry("a.mkv", "file", 1), DavEntry("d", "directory", -1)>>
          ELSE <<DavEntry("d", "directory", -1)>>],
       [l \in {<<n, "d">> : n \in 0..(NZBDAV_MAX_DIRECTORY_DEPTH + 1)} |-> l[1] + 1])

\* Videos of the same size in one directory, in a directory and the one
\* below it, and in two sibling directories.
TreeTies ==
  Tree((0 :> <<DavEntry("a.mkv", "file", 4), DavEntry("S01E02.mkv", "file", 3),
               DavEntry("movie.mkv", "file", 4), DavEntry("sub", "directory", -1),
               DavEntry("d", "directory", -1)>>) @@
       (1 :> <<DavEntry("S01E02.mkv", "file", 3), DavEntry("a.mkv", "file", 6)>>) @@
       (2 :> <<DavEntry("movie.mkv", "file", 6), DavEntry("b.MP4", "file", 6)>>),
       (<<0, "sub">> :> 1) @@ (<<0, "d">> :> 2))

Trees == {TreeSeason, TreeSiblings, TreeLoop, TreeDeep, TreeTies}

\* The directory the file share reaches from node along segs.
RECURSIVE ResolveFrom(_, _, _)
ResolveFrom(tree, node, segs) ==
  IF segs = <<>> THEN node
  ELSE ResolveFrom(tree, tree.links[<<node, Head(segs)>>], Tail(segs))

\* client.getDirectoryContents(relativePath) below the job's content root.
Listing(tree, rel) == tree.dirs[ResolveFrom(tree, 0, rel)]

\* The episodes a locate call can be asked for.
LocatorEpisodes == {NoEpisode, [season |-> 1, episode |-> 2], [season |-> 2, episode |-> 5]}

\* findBestVideoFile({ category, jobName, requestedEpisode }) is called and
\* waits for its first listing; listed is the list of the listings that have
\* returned: path, depth and whether it succeeded.
LocatorCall(tree, requestedEpisode) ==
  [fn |-> "findBestVideoFile", pc |-> "listing", tree |-> tree,
   requestedEpisode |-> requestedEpisode,
   loc |-> LocShift(LocInit(NZBDAV_CATEGORY_MOVIES, "job")).loc,
   listed |-> <<>>, result |-> NoFile]

InitLocator ==
  /\ PipelineAtRest
  /\ cfg \in Configurations
  /\ call \in { LocatorCall(t, e) : t \in Trees, e \in LocatorEpisodes }

\* findBestVideoFile, one listing returns (listOk FALSE: it threw), up to
\* the next listing or the return.
LocatorListReturns(listOk) ==
  /\ call.fn = "findBestVideoFile" /\ call.pc = "listing"
  /\ LET here == call.loc.currentPath
         entries == MapEntries(Listing(call.tree, RelPath(here)))
         sh == LocShift(LocListed(call.loc, listOk, entries, call.requestedEpisode))
         listed == Append(call.listed,
                          [path |-> here, depth |-> call.loc.depth, ok |-> listOk])
     IN call' = IF sh.listing
                THEN [call EXCEPT !.loc = sh.loc, !.listed = listed]
                ELSE [call EXCEPT !.pc = "returned", !.loc = sh.loc, !.listed = listed,
                                  !.result = LocResult(sh.loc)]
  /\ UNCHANGED <<cfg, pipelineVars>>

NextLocator ==
  \/ LocatorListReturns(TRUE)
  \/ LocatorListReturns(FALSE)

SpecLocator == InitLocator /\ [][NextLocator]_vars

\* Every listing the Locator waits for returns or throws in the end.
SpecLocatorFair == SpecLocator /\ WF_vars(NextLocator)

\* ------------------------------------------------- the Responder on its own
\* Header values are sequences of characters.
Digits == {"0", "1", "2", "3", "4", "5", "6", "7", "8", "9"}

DigitValue(c) ==
  CASE c = "0" -> 0 [] c = "1" -> 1 [] c = "2" -> 2 [] c = "3" -> 3 [] c = "4" -> 4
    [] c = "5" -> 5 [] c = "6" -> 6 [] c = "7" -> 7 [] c = "8" -> 8 [] c = "9" -> 9

\* The number a string of digits denotes.
RECURSIVE DigitsValue(_)
DigitsValue(ds) ==
  IF ds = <<>> THEN 0
  ELSE 10 * DigitsValue(SubSeq(ds, 1, Len(ds) - 1)) + DigitValue(ds[Len(ds)])

RECURSIVE StripZeros(_)
StripZeros(ds) ==
  IF ds # <<>> /\ Head(ds) = "0" THEN StripZeros(Tail(ds)) ELSE ds

\* Number.MAX_VALUE has 309 digits: a string of more significant digits
\* denotes a number no double holds.
MaxValueDigits == 309

Infinity == [finite |-> FALSE, value |-> 0]

\* Number.parseInt(ds, 10) on a non-empty string of digits: the number it
\* denotes, Infinity when that number is beyond the doubles.
ParseInt(ds) ==
  IF Len(StripZeros(ds)) > MaxValueDigits THEN Infinity
  ELSE [finite |-> TRUE, value |-> DigitsValue(ds)]

\* Number.isFinite(n) && n >= 0
FiniteNonNegative(n) == n.finite /\ n.value >= 0

\* Variant: the name of the unit is matched in any case.
MatchesRangePatternAnyCase(h) ==
  /\ Len(h) >= 7
  /\ SubSeq(h, 1, 6) \in {<<"b", "y", "t", "e", "s", "=">>, <<"B", "y", "t", "e", "s", "=">>}
  /\ \E k \in 7..Len(h) :
       /\ h[k] = "-"
       /\ \A i \in 7..(k - 1) : h[i] \in Digits
       /\ \A i \in (k + 1)..Len(h) : h[i] \in Digits

\* /^bytes=\d*-\d*$/.test(h)
MatchesRangePattern(h) ==
  /\ Len(h) >= 7
  /\ SubSeq(h, 1, 6) = <<"b", "y", "t", "e", "s", "=">>
  /\ \E k \in 7..Len(h) :
       /\ h[k] = "-"
       /\ \A i \in 7..(k - 1) : h[i] \in Digits
       /\ \A i \in (k + 1)..Len(h) : h[i] \in Digits

\* The two parts of a matching header:  rangeHeader.split('=')[1].split('-').
SplitRange(h) ==
  LET k == CHOOSE i \in 7..Len(h) : h[i] = "-"
  IN [rangeStart |-> SubSeq(h, 7, k - 1), rangeEnd |-> SubSeq(h, k + 1, Len(h))]

\* if (start >= totalSize)
Unsatisfiable(start, totalSize) == start >= totalSize

\* Variant: an end below the start is kept.
ClampEndKeepsBelowStart(start, end, totalSize) ==
  IF end >= totalSize THEN totalSize - 1 ELSE end

\* if (end >= totalSize || end < start) end = totalSize - 1
ClampEnd(start, end, totalSize) ==
  IF end >= totalSize \/ end < start THEN totalSize - 1 ELSE end

\* req.headers.range: undefined when the request has no Range header.
NoHeader == [present |-> FALSE, value |-> <<>>]
Header(value) == [present |-> TRUE, value |-> value]

NoResponse == [status |-> 0]

\* fs.createReadStream(path, { start, end }) piped to the response: the
\* offsets of the bytes read, start..end, of a file of totalSize bytes.
ReadBytes(start, end, totalSize) ==
  LET last == IF end < totalSize - 1 THEN end ELSE totalSize - 1
  IN [i \in 1..(last - start + 1) |-> start + i - 1]

\* Variant: a header without a start asks for the last bytes of the file.
streamFileResponseLastBytes(rangeHeader, emulateHead, totalSize) ==
  LET matching == /\ rangeHeader.present /\ rangeHeader.value # <<>>
                  /\ MatchesRangePattern(rangeHeader.value)
      parts == SplitRange(rangeHeader.value)
      parsedStart == ParseInt(parts.rangeStart)
      parsedEnd == ParseInt(parts.rangeEnd)
      suffix == parts.rangeStart = <<>> /\ parts.rangeEnd # <<>> /\ FiniteNonNegative(parsedEnd)
      start == IF suffix
               THEN (IF parsedEnd.value >= totalSize THEN 0 ELSE totalSize - parsedEnd.value)
               ELSE IF parts.rangeStart # <<>> /\ FiniteNonNegative(parsedStart)
               THEN parsedStart.value ELSE 0
      end0 == IF ~suffix /\ parts.rangeEnd # <<>> /\ FiniteNonNegative(parsedEnd)
              THEN parsedEnd.value ELSE totalSize - 1
      end == ClampEnd(start, end0, totalSize)
  IN IF emulateHead
     THEN [status |-> 200, contentRange |-> <<>>, contentLength |-> totalSize, body |-> <<>>]
     ELSE IF ~matching
     THEN [status |-> 200, contentRange |-> <<>>, contentLength |-> totalSize,
           body |-> ReadBytes(0, totalSize - 1, totalSize)]
     ELSE IF Unsatisfiable(start, totalSize)
     THEN [status |-> 416, contentRange |-> <<"bytes */", totalSize>>,
           contentLength |-> -1, body |-> <<>>]
     ELSE [status |-> 206, contentRange |-> <<"bytes ", start, "-", end, "/", totalSize>>,
           contentLength |-> end - start + 1, body |-> ReadBytes(start, end, totalSize)]

\* streamFileResponse(req, res, absolutePath, emulateHead, logPrefix, stats)
\* for a regular file of totalSize bytes: the response it sends.  The value
\* of Content-Range is the sequence of the parts of its template, <<>> when
\* the header is not set; contentLength is -1 when the function sets none.
streamFileResponse(rangeHeader, emulateHead, totalSize) ==
  LET matching == /\ rangeHeader.present /\ rangeHeader.value # <<>>
                  /\ MatchesRangePattern(rangeHeader.value)
      parts == SplitRange(rangeHeader.value)
      parsedStart == ParseInt(parts.rangeStart)
      parsedEnd == ParseInt(parts.rangeEnd)
      start == IF parts.rangeStart # <<>> /\ FiniteNonNegative(parsedStart)
               THEN parsedStart.value ELSE 0
      end0 == IF parts.rangeEnd # <<>> /\ FiniteNonNegative(parsedEnd)
              THEN parsedEnd.value ELSE totalSize - 1
      end == ClampEnd(start, end0, totalSize)
  IN IF emulateHead
     THEN [status |-> 200, contentRange |-> <<>>, contentLength |-> totalSize, body |-> <<>>]
     ELSE IF ~matching
     THEN [status |-> 200, contentRange |-> <<>>, contentLength |-> totalSize,
           body |-> ReadBytes(0, totalSize - 1, totalSize)]
     ELSE IF Unsatisfiable(start, totalSize)
     THEN [status |-> 416, contentRange |-> <<"bytes */", totalSize>>,
           contentLength |-> -1, body |-> <<>>]
     ELSE [status |-> 206, contentRange |-> <<"bytes ", start, "-", end, "/", totalSize>>,
           contentLength |-> end - start + 1, body |-> ReadBytes(start, end, totalSize)]

\* The largest size of the served file in the model.
MaxFileSize == 3
FileSizes == 1..MaxFileSize

\* A start or an end as a client writes it: absent, short, with a leading
\* zero, or longer than any double.
HugeDigits == [i \in 1..(MaxValueDigits + 1) |-> "9"]
DigitStrings ==
  {<<>>, <<"0">>, <<"1">>, <<"2">>, <<"3">>, <<"5">>, <<"0", "2">>, <<"1", "0">>, HugeDigits}

RangeHeaderOf(a, b) == <<"b", "y", "t", "e", "s", "=">> \o a \o <<"-">> \o b

\* Headers outside the pattern: empty, no dash, two ranges, another unit,
\* letters, a space, a capital.
MalformedHeaders ==
  { <<>>,
    <<"b", "y", "t", "e", "s", "=", "1">>,
    <<"b", "y", "t", "e", "s", "=", "0", "-", "1", ",", "2", "-", "2">>,
    <<"i", "t", "e", "m", "s", "=", "0", "-", "1">>,
    <<"b", "y", "t", "e", "s", "=", "a", "-", "b">>,
    <<"b", "y", "t", "e", "s", "=", " ", "0", "-", "1">>,
    <<"B", "y", "t", "e", "s", "=", "0", "-", "1">>,
    <<"b", "y", "t", "e", "s", "=", "-", "1", "-", "2">> }

RangeHeaders ==
  {NoHeader} \cup { Header(h) : h \in MalformedHeaders }
             \cup { Header(RangeHeaderOf(a, b)) : a, b \in DigitStrings }

ResponderCall(rangeHeader, emulateHead, totalSize) ==
  [fn |-> "streamFileResponse", pc |-> "called", rangeHeader |-> rangeHeader,
   emulateHead |-> emulateHead, totalSize |-> totalSize, response |-> NoResponse]

\* The calls on an empty file that end before fs.createReadStream: a HEAD,
\* and a GET with a matching Range header (the others open the stream with
\* end -1, and what then happens is the runtime's).
EmptyFileCalls ==
  { ResponderCall(h, m, 0) :
      h \in { g \in RangeHeaders : g.present /\ g.value # <<>> /\ MatchesRangePattern(g.value) },
      m \in BOOLEAN } \cup
  { ResponderCall(h, TRUE, 0) : h \in RangeHeaders }

InitResponder ==
  /\ PipelineAtRest
  /\ cfg \in Configurations
  /\ call \in { ResponderCall(h, m, n) : h \in RangeHeaders, m \in BOOLEAN, n \in FileSizes }
               \cup EmptyFileCalls

\* streamFileResponse runs to the end of the response.
ResponderAnswers ==
  /\ call.fn = "streamFileResponse" /\ call.pc = "called"
  /\ call' = [call EXCEPT !.pc = "ended",
                          !.response = streamFileResponse(call.rangeHeader, call.emulateHead,
                                                          call.totalSize)]
  /\ UNCHANGED <<cfg, pipelineVars>>

NextResponder == ResponderAnswers

SpecResponder == InitResponder /\ [][NextResponder]_vars

\* ---------------------------------------------- the Handler after the build
\* req.method is in upper case as the HTTP parser delivers it.
NZBDAV_SUPPORTED_METHODS == {"GET", "HEAD"}

\* The response object of express.  sentStatus is 0 until the headers are
\* sent; body is the bytes written, json the error object sent as JSON (""
\* when none), text the text sent by res.send ("" when none).
NewRes ==
  [statusCode |-> 200, headers |-> <<>>, headersSent |-> FALSE, sentStatus |-> 0,
   sentHeaders |-> <<>>, body |-> <<>>, json |-> "", text |-> "", ended |-> FALSE]

ResStatus(res, code) == [res EXCEPT !.statusCode = code]
ResSetHeader(res, name, value) == [res EXCEPT !.headers = (name :> value) @@ @]

\* The status line and the headers go out with the first write or the end.
ResFlush(res) ==
  IF res.headersSent THEN res
  ELSE [res EXCEPT !.headersSent = TRUE, !.sentStatus = res.statusCode,
                   !.sentHeaders = res.headers]
ResWrite(res, bytes) == [ResFlush(res) EXCEPT !.body = @ \o bytes]
ResEnd(res) == [ResFlush(res) EXCEPT !.ended = TRUE]
ResJson(res, error) == ResEnd([res EXCEPT !.json = error])
ResSend(res, text) == ResEnd([res EXCEPT !.text = text])

\* The inbound headers proxyNzbdavStream copies, and the names it gives them.
ForwardedAs ==
  ("range" :> "Range") @@ ("if-range" :> "If-Range") @@ ("accept" :> "Accept") @@
  ("accept-language" :> "Accept-Language") @@ ("accept-encoding" :> "Accept-Encoding") @@
  ("user-agent" :> "User-Agent")

BytesZeroZero == RangeHeaderOf(<<"0">>, <<"0">>)

\* Variant: a HEAD without a Range is forwarded without one.
ForwardHeadersNoSubstitute(inbound, emulateHead) ==
  LET passed == { k \in DOMAIN inbound \cap DOMAIN ForwardedAs : inbound[k] # <<>> }
  IN [h \in { ForwardedAs[k] : k \in passed } |->
        inbound[CHOOSE k \in passed : ForwardedAs[k] = h]]

\* proxyNzbdavStream, the headers of the upstream request: the six inbound
\* headers that are present and not empty, and Range "bytes=0-0" for a HEAD
\* that has none.
ForwardHeaders(inbound, emulateHead) ==
  LET passed == { k \in DOMAIN inbound \cap DOMAIN ForwardedAs : inbound[k] # <<>> }
      headers == [h \in { ForwardedAs[k] : k \in passed } |->
                    inbound[CHOOSE k \in passed : ForwardedAs[k] = h]]
  IN IF emulateHead /\ "Range" \notin DOMAIN headers
     THEN ("Range" :> BytesZeroZero) @@ headers
     ELSE headers

NoRequest == [method |-> "none", url |-> <<>>, headers |-> <<>>]

\* proxyNzbdavStream, requestConfig.
ProxyRequest(originalMethod, inbound, viewPath) ==
  LET emulateHead == originalMethod = "HEAD"
  IN [method |-> IF emulateHead THEN "GET" ELSE originalMethod,
      url |-> viewPath,
      headers |-> ForwardHeaders(inbound, emulateHead)]

\* Variant: only the lower-case name is dropped.
RelayHeadersCaseSensitive(res, headers) ==
  LET kept == { k \in DOMAIN headers : k # "transfer-encoding" }
  IN [res EXCEPT !.headers = [k \in kept |-> headers[k]] @@ @]

\* proxyNzbdavStream, Object.entries(nzbdavResponse.headers).forEach: every
\* upstream header but Transfer-Encoding is set on the response.
RelayHeaders(res, headers) ==
  LET kept == { k \in DOMAIN headers : ToLowerCase(k) # "transfer-encoding" }
  IN [res EXCEPT !.headers = [k \in kept |-> headers[k]] @@ @]

\* Variant: a HEAD is piped like a GET.
EndsWithoutPipingIgnoresHead(emulateHead, hasStream) == ~hasStream

\* proxyNzbdavStream:  emulateHead || !data || typeof data.pipe !== 'function'
EndsWithoutPiping(emulateHead, hasStream) == emulateHead \/ ~hasStream

\* Variant: every error of the pipeline is thrown.
PipeErrorVerdictThrowsAll(code) == "throw"

\* proxyNzbdavStream and streamFileResponse, the catch around pipelineAsync.
PipeErrorVerdict(code) ==
  IF code = "ERR_STREAM_PREMATURE_CLOSE" THEN "return" ELSE "throw"

\* Variant: the error response is written whatever was sent.
ErrorResponseAlways(res, statusCode, message) == ResJson(ResStatus(res, statusCode), message)

\* handleNzbdavStream, the end of the catch block.
ErrorResponse(res, statusCode, message) ==
  IF ~res.headersSent THEN ResJson(ResStatus(res, statusCode), message) ELSE ResEnd(res)

\* Variant: the failure reason is not put in a header.
FailureHeaderNever(res, failureMessage) == res

\* streamFailureVideo:  if (!res.headersSent) res.setHeader('X-NZBDav-Failure', ...)
FailureHeader(res, failureMessage) ==
  IF ~res.headersSent THEN ResSetHeader(res, "X-NZBDav-Failure", failureMessage) ELSE res

\* failureError?.failureMessage || failureError?.message || 'NZBDav download failed'
FailureMessageOf(error) ==
  IF error.failureMessage # "" THEN error.failureMessage
  ELSE IF error.message # "" THEN error.message
  ELSE "NZBDav download failed"

\* The file share answers a request for a file of n bytes: it serves the
\* range asked for (206, or 416 when the start is beyond the file), or the
\* whole file with a length or in chunks, or has no such file; data is FALSE
\* when the response comes without a stream.
ShareAnswers(request, n) ==
  LET ranged == "Range" \in DOMAIN request.headers
      parts == SplitRange(request.headers["Range"])
      start == DigitsValue(parts.rangeStart)
      end == IF parts.rangeEnd = <<>> \/ DigitsValue(parts.rangeEnd) >= n THEN n - 1
             ELSE DigitsValue(parts.rangeEnd)
      whole == [i \in 1..n |-> i - 1]
  IN { [status |-> 200, data |-> TRUE, body |-> whole,
        headers |-> ("content-length" :> n) @@ ("content-type" :> "video/x-matroska")],
       [status |-> 200, data |-> TRUE, body |-> whole,
        headers |-> ("Transfer-Encoding" :> "chunked") @@ ("etag" :> "e1")],
       [status |-> 404, data |-> TRUE, body |-> <<>>,
        headers |-> ("transfer-encoding" :> "chunked")],
       [status |-> 204, data |-> FALSE, body |-> <<>>,
        headers |-> ("content-length" :> 0)] }
     \cup
     IF ~ranged THEN {}
     ELSE IF start >= n
     THEN { [status |-> 416, data |-> TRUE, body |-> <<>>,
             headers |-> ("content-range" :> <<"bytes */", n>>)] }
     ELSE { [status |-> 206, data |-> TRUE,
             body |-> [i \in 1..(end - start + 1) |-> start + i - 1],
             headers |-> ("content-length" :> end - start + 1) @@
                         ("content-range" :> <<"bytes ", start, "-", end, "/", n>>)] }

\* The errors axios.request throws: no response, or a status of 500 and above.
ShareErrors ==
  { [isNzbdavFailure |-> FALSE, failureMessage |-> "", message |-> "socket hang up",
     responseStatus |-> 0],
    [isNzbdavFailure |-> FALSE, failureMessage |-> "",
     message |-> "Request failed with status code 503", responseStatus |-> 503] }

\* The error of a stream that breaks while it is piped.
PipeError(code) ==
  [isNzbdavFailure |-> FALSE, failureMessage |-> "", message |-> code, responseStatus |-> 0]

\* What getOrCreateNzbdavStream gives the handler: the stream data, the
\* job-failure error, or another error (without or with a response status).
HandlerOutcomes ==
  { Ok([viewPath |-> Path(FALSE, <<"content", "Movies", "job", "movie.mkv">>)]),
    Err([isNzbdavFailure |-> TRUE, failureMessage |-> "boom", message |-> "boom",
         responseStatus |-> 0]),
    Err([isNzbdavFailure |-> FALSE, failureMessage |-> "",
         message |-> "Timeout while waiting for NZBDav", responseStatus |-> 0]),
    Err([isNzbdavFailure |-> FALSE, failureMessage |-> "",
         message |-> "Request failed with status code 401", responseStatus |-> 401]) }

\* Inbound headers: a Range (absent, empty, within the file, beyond it) and
\* other headers, each with a value of its own.
InboundRanges == {RangeHeaderOf(<<"1">>, <<>>), RangeHeaderOf(<<"5">>, <<>>), <<>>}
InboundOthers ==
  { {}, {"cookie", "authorization", "host"},
    {"if-range", "accept", "accept-language", "accept-encoding", "user-agent", "cookie"} }
InboundHeaders ==
  { [k \in names |-> <<"in", k>>] : names \in InboundOthers }
  \cup { ("range" :> r) @@ [k \in names |-> <<"in", k>>] :
           r \in InboundRanges, names \in InboundOthers }

\* req.headers.range as streamFileResponse reads it.
RangeOf(inbound) ==
  IF "range" \in DOMAIN inbound THEN Header(inbound["range"]) ELSE NoHeader

\* handleNzbdavStream resumes after  await getOrCreateNzbdavStream(...) .
\* assetIsFile: the failure video is a regular file; size: the size of the
\* file served (the remote one or the failure video); request: the request
\* sent to the file share; pending: the bytes of the stream being piped;
\* pipeError: the code of the error the pipeline failed with; caught: the
\* error the catch block of the handler received; returned: how the handler
\* ended ("" while it runs).
HandlerCall(method, inbound, outcome, assetIsFile) ==
  [fn |-> "handleNzbdavStream", pc |-> "resumed", method |-> method, inbound |-> inbound,
   outcome |-> outcome, assetIsFile |-> assetIsFile, size |-> MaxFileSize,
   res |-> NewRes, request |-> NoRequest, requests |-> 0, answer |-> NoResponse,
   pending |-> <<>>, piped |-> FALSE, destroyed |-> FALSE, readStream |-> FALSE,
   pipeError |-> "", caught |-> NoOutcome, returned |-> ""]

InitHandler ==
  /\ PipelineAtRest
  /\ cfg \in Configurations
  /\ call \in { HandlerCall(m, i, o, a) :
                  m \in {"GET", "HEAD", "POST"}, i \in InboundHeaders,
                  o \in HandlerOutcomes, a \in BOOLEAN }
  /\ (call.outcome.kind = "ok" \/ ~call.outcome.error.isNzbdavFailure) => call.assetIsFile

\* handleNzbdavStream, the catch block for an error that is not a
\* job-failure:  error.response?.status || 502 , then the error response.
CatchOther(c, error) ==
  [c EXCEPT !.pc = "done", !.caught = Err(error), !.returned = "normally",
            !.res = ErrorResponse(c.res,
                                  IF error.responseStatus # 0 THEN error.responseStatus ELSE 502,
                                  error.message)]

\* handleNzbdavStream, the catch block for a job-failure: streamFailureVideo
\* up to the await of the pipeline in streamFileResponse, and the 502 or the
\* end when the failure video is not served.
CatchFailure(c, error) ==
  LET emulateHead == c.method = "HEAD"
      answer == streamFileResponse(RangeOf(c.inbound), emulateHead, c.size)
      res1 == FailureHeader(c.res, FailureMessageOf(error))
      res2 == ResSetHeader(ResSetHeader(ResSetHeader(res1,
                "Accept-Ranges", "bytes"), "Last-Modified", "mtime"),
                "Content-Type", "application/octet-stream")
      caught == [c EXCEPT !.caught = Err(error)]
  IN IF ~c.assetIsFile
     THEN [caught EXCEPT !.pc = "done", !.returned = "normally",
                         !.res = IF ~c.res.headersSent
                                 THEN ResJson(ResStatus(c.res, 502),
                                              IF error.failureMessage # ""
                                              THEN error.failureMessage ELSE error.message)
                                 ELSE ResEnd(c.res)]
     ELSE IF emulateHead
     THEN [caught EXCEPT !.pc = "done", !.returned = "normally",
                         !.res = ResEnd(ResStatus(ResSetHeader(res2, "Content-Length", c.size),
                                                  200))]
     ELSE IF answer.status = 416
     THEN [caught EXCEPT !.pc = "done", !.returned = "normally",
                         !.res = ResEnd(ResSetHeader(ResStatus(res2, 416),
                                                     "Content-Range", answer.contentRange))]
     ELSE [caught EXCEPT !.pc = "localPiping", !.readStream = TRUE, !.pending = answer.body,
                         !.res = IF answer.status = 206
                                 THEN ResSetHeader(ResSetHeader(ResStatus(res2, 206),
                                        "Content-Range", answer.contentRange),
                                        "Content-Length", answer.contentLength)
                                 ELSE ResSetHeader(ResStatus(res2, 200),
                                        "Content-Length", c.size)]

\* handleNzbdavStream goes on after the await: proxyNzbdavStream up to its
\* axios.request (or its 405), or the catch block.
HandlerResumes ==
  /\ call.fn = "handleNzbdavStream" /\ call.pc = "resumed"
  /\ call' =
       IF call.outcome.kind = "ok"
       THEN IF call.method \notin NZBDAV_SUPPORTED_METHODS
            THEN [call EXCEPT !.pc = "done", !.returned = "normally",
                              !.res = ResSend(ResStatus(call.res, 405), "Method Not Allowed")]
            ELSE [call EXCEPT !.pc = "requested", !.requests = @ + 1,
                              !.request = ProxyRequest(call.method, call.inbound,
                                                       call.outcome.data.viewPath)]
       ELSE IF call.outcome.error.isNzbdavFailure
       THEN CatchFailure(call, call.outcome.error)
       ELSE CatchOther(call, call.outcome.error)
  /\ UNCHANGED <<cfg, pipelineVars>>

\* proxyNzbdavStream after axios.request returned: status and headers are
\* relayed; the response is ended, or the stream is piped.
ShareResponds(answer) ==
  /\ call.fn = "handleNzbdavStream" /\ call.pc = "requested"
  /\ answer \in ShareAnswers(call.request, call.size)
  /\ LET relayed == RelayHeaders(ResStatus(call.res, answer.status), answer.headers)
         answered == [call EXCEPT !.answer = answer]
     IN call' = IF EndsWithoutPiping(call.method = "HEAD", answer.data)
                THEN [answered EXCEPT !.pc = "done", !.returned = "normally",
                                      !.destroyed = answer.data, !.res = ResEnd(relayed)]
                ELSE [answered EXCEPT !.pc = "piping", !.piped = TRUE,
                                      !.pending = answer.body, !.res = relayed]
  /\ UNCHANGED <<cfg, pipelineVars>>

\* axios.request throws.
ShareFails(error) ==
  /\ call.fn = "handleNzbdavStream" /\ call.pc = "requested"
  /\ call' = CatchOther(call, error)
  /\ UNCHANGED <<cfg, pipelineVars>>

\* The pipeline writes the next byte of the stream to the response.
PipeWrites ==
  /\ call.fn = "handleNzbdavStream" /\ call.pc \in {"piping", "localPiping"}
  /\ call.pending # <<>>
  /\ call' = [call EXCEPT !.res = ResWrite(@, <<Head(call.pending)>>),
                          !.pending = Tail(@)]
  /\ UNCHANGED <<cfg, pipelineVars>>

\* The stream ends: the pipeline ends the response and the handler returns.
PipeEnds ==
  /\ call.fn = "handleNzbdavStream" /\ call.pc \in {"piping", "localPiping"}
  /\ call.pending = <<>>
  /\ call' = [call EXCEPT !.pc = "done", !.returned = "normally", !.res = ResEnd(@)]
  /\ UNCHANGED <<cfg, pipelineVars>>

\* The pipeline fails with an error of the given code: the client went away
\* (ERR_STREAM_PREMATURE_CLOSE) or the source broke.  On the remote path a
\* thrown error reaches the catch block of the handler; on the local path
\* the handler is already in its catch block and the error leaves it.
PipeFails(code) ==
  /\ call.fn = "handleNzbdavStream" /\ call.pc \in {"piping", "localPiping"}
  /\ LET failed == [call EXCEPT !.pipeError = code]
     IN call' = IF PipeErrorVerdict(code) = "return"
                THEN [failed EXCEPT !.pc = "done", !.returned = "normally"]
                ELSE IF call.pc = "piping" THEN CatchOther(failed, PipeError(code))
                ELSE [failed EXCEPT !.pc = "done", !.returned = "threw"]
  /\ UNCHANGED <<cfg, pipelineVars>>

NextHandler ==
  \/ HandlerResumes
  \/ \E answer \in ShareAnswers(call.request, call.size) : ShareResponds(answer)
  \/ \E error \in ShareErrors : ShareFails(error)
  \/ PipeWrites
  \/ PipeEnds
  \/ PipeFails("ERR_STREAM_PREMATURE_CLOSE")
  \/ PipeFails("ECONNRESET")

SpecHandler == InitHandler /\ [][NextHandler]_vars

\* ------------------------------------------------- the cache key on its own
\* A string is the sequence of its characters; a name that holds neither
\* "|" nor "x" nor a digit stands for its characters.
DigitChars == <<"0", "1", "2", "3", "4", "5", "6", "7", "8", "9">>

\* A number between -100 and 100 as a template literal prints it.
DecimalOf(n) ==
  LET m == IF n < 0 THEN 0 - n ELSE n
      digits == IF m < 10 THEN <<DigitChars[m + 1]>>
                ELSE <<DigitChars[(m \div 10) + 1], DigitChars[(m % 10) + 1]>>
  IN IF n < 0 THEN <<"-">> \o digits ELSE digits

\* Variant: the season and episode of the id are used whatever the type.
parseRequestedEpisodeAnyType(type, id, query) ==
  IF query.season # 0 /\ query.episode # 0
  THEN [season |-> query.season, episode |-> query.episode]
  ELSE IF id.colons /\ id.season # 0 /\ id.episode # 0
  THEN [season |-> id.season, episode |-> id.episode]
  ELSE NoEpisode

\* parseRequestedEpisode(type, id, query): season and episode of the query
\* when both are numbers other than 0, else those of a series id of the form
\* "tt:season:episode", else none.  A part that is absent or no number is 0 here.
parseRequestedEpisode(type, id, query) ==
  IF query.season # 0 /\ query.episode # 0
  THEN [season |-> query.season, episode |-> query.episode]
  ELSE IF type = "series" /\ id.colons /\ id.season # 0 /\ id.episode # 0
  THEN [season |-> id.season, episode |-> id.episode]
  ELSE NoEpisode

\* Variant: the episode is left out of the key.
cacheKeyPartsNoEpisode(downloadUrl, category, requestedEpisode) ==
  <<downloadUrl, <<category>> >>

\* handleNzbdavStream: cacheKeyParts, with  `${season}x${episode}`  pushed
\* when an episode is requested.
cacheKeyParts(downloadUrl, category, requestedEpisode) ==
  IF requestedEpisode = NoEpisode
  THEN <<downloadUrl, <<category>> >>
  ELSE <<downloadUrl, <<category>>,
         DecimalOf(requestedEpisode.season) \o <<"x">> \o DecimalOf(requestedEpisode.episode)>>

\* Array.prototype.join
RECURSIVE Join(_, _)
Join(parts, separator) ==
  IF parts = <<>> THEN <<>>
  ELSE IF Len(parts) = 1 THEN parts[1]
  ELSE parts[1] \o <<separator>> \o Join(Tail(parts), separator)

\* The queries of the harness: download URLs (some holding "|", a category
\* name or an episode part), types, ids, season and episode of the query,
\* and titles.
KeyUrls ==
  { <<"u1">>, <<"u1", "|", "Movies">>, <<"u1", "|", "Tv", "|", "1", "x", "1", "2">> }
KeyTypes == {"movie", "series", "other"}
KeyIds ==
  { [colons |-> FALSE, season |-> 0, episode |-> 0],
    [colons |-> TRUE, season |-> 1, episode |-> 12],
    [colons |-> TRUE, season |-> 11, episode |-> 2] }
KeyQueries ==
  { [season |-> 0, episode |-> 0], [season |-> 1, episode |-> 12],
    [season |-> 1, episode |-> 0] }
KeyTitles == {"NZB Stream", "Other title"}
KeyRequests ==
  [downloadUrl : KeyUrls, type : KeyTypes, id : KeyIds, query : KeyQueries,
   title : KeyTitles]

\* Two requests come to handleNzbdavStream; keyed: what the handler has
\* computed for those it has keyed (category, episode, cache key).
KeyCall(first, second) ==
  [fn |-> "cacheKey", pc |-> "called", requests |-> <<first, second>>, keyed |-> <<>>]

InitKey ==
  /\ PipelineAtRest
  /\ cfg \in Configurations
  /\ call \in { KeyCall(a, b) : a \in KeyRequests, b \in KeyRequests }

\* handleNzbdavStream from its start to the cache key, for the next request.
KeyComputed ==
  /\ call.fn = "cacheKey" /\ Len(call.keyed) < Len(call.requests)
  /\ LET query == call.requests[Len(call.keyed) + 1]
         category == getNzbdavCategory(query.type)
         requestedEpisode == parseRequestedEpisode(query.type, query.id, query.query)
         cacheKey == Join(cacheKeyParts(query.downloadUrl, category, requestedEpisode), "|")
     IN call' = [call EXCEPT
                   !.keyed = Append(@, [category |-> category,
                                        requestedEpisode |-> requestedEpisode,
                                        cacheKey |-> cacheKey]),
                   !.pc = IF Len(call.keyed) + 1 = Len(call.requests) THEN "done" ELSE "keying"]
  /\ UNCHANGED <<cfg, pipelineVars>>

NextKey == KeyComputed

SpecKey == InitKey /\ [][NextKey]_vars

\* ------------------------------------------- the requested episode on its own
\* A value of the query string: absent, or the sequence of its characters.
Absent == [present |-> FALSE, text |-> <<>>]
Text(chars) == [present |-> TRUE, text |-> chars]

\* parseInt(text, 10): leading blanks are skipped, then a sign, then the
\* longest run of digits is read; NaN when there is no digit.
NaN == [finite |-> FALSE, value |-> 0]

RECURSIVE SkipBlanks(_)
SkipBlanks(text) ==
  IF text # <<>> /\ Head(text) = " " THEN SkipBlanks(Tail(text)) ELSE text

LeadingDigits(text) ==
  LET n == CHOOSE k \in 0..Len(text) :
             /\ \A i \in 1..k : text[i] \in Digits
             /\ k = Len(text) \/ text[k + 1] \notin Digits
  IN SubSeq(text, 1, n)

parseInt(text) ==
  LET trimmed == SkipBlanks(text)
      signed == trimmed # <<>> /\ Head(trimmed) \in {"+", "-"}
      negative == signed /\ Head(trimmed) = "-"
      ds == LeadingDigits(IF signed THEN Tail(trimmed) ELSE trimmed)
      magnitude == ParseInt(ds)
  IN IF ds = <<>> THEN NaN
     ELSE IF ~magnitude.finite THEN magnitude
     ELSE [finite |-> TRUE, value |-> IF negative THEN 0 - magnitude.value ELSE magnitude.value]

\* parseRequestedEpisode, extractInt: null for undefined, null and for what
\* parseInt does not read as a finite number.
NullInt == [null |-> TRUE, value |-> 0]
extractInt(value) ==
  IF ~value.present THEN NullInt
  ELSE LET parsed == parseInt(value.text)
       IN IF parsed.finite THEN [null |-> FALSE, value |-> parsed.value] ELSE NullInt

\* a ?? b ?? c
Coalesce(a, b, c) == IF a.present THEN a ELSE IF b.present THEN b ELSE c

\* What  season && episode  sees of an extracted number: null and 0 are
\* both falsy.
NumberOrZero(n) == IF n.null THEN 0 ELSE n.value

\* parseRequestedEpisode, the two values of the query.
QueryNumbers(query) ==
  [season |-> NumberOrZero(extractInt(Coalesce(query.season, query.Season, query.S))),
   episode |-> NumberOrZero(extractInt(Coalesce(query.episode, query.Episode, query.E)))]

\* parseRequestedEpisode, the id: a string that holds ":" and has at least
\* three parts when split at ":", and the numbers of its second and third
\* part.  An id is given by the parts  id.split(':')  yields.
IdNumbers(id) ==
  LET usable == id.isString /\ Len(id.parts) >= 2 /\ Len(id.parts) >= 3
  IN [colons |-> usable,
      season |-> IF usable THEN NumberOrZero(extractInt(Text(id.parts[2]))) ELSE 0,
      episode |-> IF usable THEN NumberOrZero(extractInt(Text(id.parts[3]))) ELSE 0]

\* Values of season and episode as a client writes them.
EpisodeTexts ==
  { <<>>, <<"0">>, <<"0", "0">>, <<"1">>, <<"1", "2">>, <<"-", "1">>, <<" ", "3">>,
    <<"2", "x">>, <<"x", "2">>, <<"a", "b", "c">>, <<"1", ".", "5">> }
EpisodeValues == {Absent} \cup { Text(t) : t \in EpisodeTexts }

EpisodeQuery(season, upperSeason, s, episode, upperEpisode, e) ==
  [season |-> season, Season |-> upperSeason, S |-> s,
   episode |-> episode, Episode |-> upperEpisode, E |-> e]

\* Queries with the lower-case names, some with the other names, and one
\* with a season beyond the doubles.
EpisodeQueries ==
  { EpisodeQuery(a, Absent, Absent, b, Absent, Absent) : a, b \in EpisodeValues } \cup
  { EpisodeQuery(Text(HugeDigits), Absent, Absent, Text(<<"1">>), Absent, Absent),
    EpisodeQuery(Absent, Text(<<"1">>), Absent, Absent, Absent, Text(<<"1", "2">>)),
    EpisodeQuery(Text(<<"0">>), Text(<<"1">>), Absent, Text(<<"1", "2">>), Absent, Absent),
    EpisodeQuery(Absent, Absent, Text(<<"1", "2">>), Absent, Text(<<"1">>), Text(<<"0">>)) }

\* Ids: without ":", with one, with season and episode, with a 0, with a
\* part that is no number, with a fourth part, and an id given twice (an
\* array).
EpisodeIds ==
  { [isString |-> TRUE, parts |-> <<<<"t", "t", "1">> >>],
    [isString |-> TRUE, parts |-> << <<"t", "t", "1">>, <<"1">> >>],
    [isString |-> TRUE, parts |-> << <<"t", "t", "1">>, <<"1">>, <<"1", "2">> >>],
    [isString |-> TRUE, parts |-> << <<"t", "t", "1">>, <<"0">>, <<"1", "2">> >>],
    [isString |-> TRUE, parts |-> << <<"t", "t", "1">>, <<"a", "b", "c">>, <<"1">> >>],
    [isString |-> TRUE, parts |-> << <<"t", "t", "1">>, <<"1", "2">>, <<"1">>, <<"x", "2">> >>],
    [isString |-> FALSE, parts |-> << <<"t", "t", "1">>, <<"1">>, <<"1", "2">> >>] }

\* handleNzbdavStream is called with type, id and the query; it computes
\* the requested episode and the parts of the cache key.
EpisodeCall(type, id, query) ==
  [fn |-> "parseRequestedEpisode", pc |-> "called", type |-> type, id |-> id,
   query |-> query, requestedEpisode |-> NoEpisode, cacheKeyParts |-> <<>>]

InitEpisode ==
  /\ PipelineAtRest
  /\ cfg \in Configurations
  /\ call \in { EpisodeCall(t, i, q) : t \in KeyTypes, i \in EpisodeIds, q \in EpisodeQueries }

\* handleNzbdavStream from its start to the parts of the cache key.
EpisodeParsed ==
  /\ call.fn = "parseRequestedEpisode" /\ call.pc = "called"
  /\ LET category == getNzbdavCategory(call.type)
         requestedEpisode ==
           parseRequestedEpisode(call.type, IdNumbers(call.id), QueryNumbers(call.query))
     IN call' = [call EXCEPT !.pc = "parsed",
                             !.requestedEpisode = requestedEpisode,
                             !.cacheKeyParts = cacheKeyParts(<<"u1">>, category, requestedEpisode)]
  /\ UNCHANGED <<cfg, pipelineVars>>

NextEpisode == EpisodeParsed

SpecEpisode == InitEpisode /\ [][NextEpisode]_vars

\* ------------------------------------------- the connection test on its own
\* testUsenetConnection (src/utils/connectionTests.js) for one client.
\* The most events the client and its stream emit in one test.
MaxEvents == 3

ClientEvents == {"ready", "error", "close", "streamError"}

\* ctor: the NNTP client library was loaded; host: the trimmed host;
\* listeners: the events a listener is registered for (streamError: 'error'
\* on the stream connect returned); timer: the timeout is armed; ignored:
\* calls of finalize that found the test settled; promise: the promise the
\* function returned; events: the events emitted so far.
ConnTestCall(ctor, host) ==
  [fn |-> "testUsenetConnection", pc |-> "called", ctor |-> ctor, host |-> host,
   settled |-> FALSE, reachedReady |-> FALSE, streamRef |-> FALSE,
   listeners |-> {}, timer |-> FALSE, quit |-> FALSE, ended |-> FALSE,
   resolveCalls |-> 0, rejectCalls |-> 0, ignored |-> 0,
   promise |-> [state |-> "pending", value |-> ""], events |-> 0]

\* resolve(message) and reject(err): only the first call settles the promise.
SettlePromise(returned, state, value) ==
  IF returned.state = "pending" THEN [state |-> state, value |-> value] ELSE returned

\* cleanup()
Cleanup(c) ==
  c.listeners \ ({"error", "close", "ready"} \cup
                 IF c.streamRef THEN {"streamError"} ELSE {})

\* Variant: finalize does not look at settled.
AlreadySettledNever(c) == FALSE

\* finalize:  if (settled) return;
AlreadySettled(c) == c.settled

\* finalize(err, message); err is "" for null.
Finalize(c, err, message) ==
  IF AlreadySettled(c) THEN [c EXCEPT !.ignored = @ + 1]
  ELSE [c EXCEPT !.settled = TRUE, !.timer = FALSE, !.listeners = Cleanup(c),
                 !.quit = c.reachedReady, !.ended = TRUE,
                 !.rejectCalls = IF err # "" THEN @ + 1 ELSE @,
                 !.resolveCalls = IF err = "" THEN @ + 1 ELSE @,
                 !.promise = IF err # "" THEN SettlePromise(@, "rejected", err)
                             ELSE SettlePromise(@, "fulfilled", message)]

onClientReady(c) ==
  Finalize([c EXCEPT !.reachedReady = TRUE], "", "Connected to Usenet provider successfully")

onClientError(c) == Finalize(c, "NNTP error", "")

onClientClose(c) ==
  IF ~c.settled THEN Finalize(c, "Connection closed before verification", "") ELSE c

InitConnTest ==
  /\ PipelineAtRest
  /\ cfg \in Configurations
  /\ call \in { ConnTestCall(ctor, host) : ctor \in BOOLEAN, host \in {"", "news.example"} }

\* testUsenetConnection from its start to the call of client.connect: it
\* throws without the client library or without a host, and otherwise arms
\* the timer and registers the three listeners.
ConnTestStarts ==
  /\ call.fn = "testUsenetConnection" /\ call.pc = "called"
  /\ call' = IF ~call.ctor
             THEN [call EXCEPT !.pc = "waiting", !.rejectCalls = @ + 1,
                     !.promise = SettlePromise(@, "rejected",
                                   "NNTP client library unavailable on server")]
             ELSE IF call.host = ""
             THEN [call EXCEPT !.pc = "waiting", !.rejectCalls = @ + 1,
                     !.promise = SettlePromise(@, "rejected",
                                   "Usenet provider host is required")]
             ELSE [call EXCEPT !.pc = "connecting", !.timer = TRUE,
                               !.listeners = {"ready", "error", "close"}]
  /\ UNCHANGED <<cfg, pipelineVars>>

\* The client or its stream emits an event, inside client.connect or later.
\* A listener registered with once is removed before it runs; an event
\* without a listener does nothing to the test.
ConnTestEmits(event) ==
  /\ call.fn = "testUsenetConnection" /\ call.pc \in {"connecting", "waiting"}
  /\ call.ctor /\ call.host # ""
  /\ event = "streamError" => call.pc = "waiting" /\ call.streamRef
  /\ call.events < MaxEvents
  /\ LET heard == event \in call.listeners
         once == [call EXCEPT !.events = @ + 1,
                              !.listeners = IF event = "streamError" THEN @ ELSE @ \ {event}]
     IN call' = IF ~heard THEN once
                ELSE IF event = "ready" THEN onClientReady(once)
                ELSE IF event = "close" THEN onClientClose(once)
                ELSE onClientError(once)
  /\ UNCHANGED <<cfg, pipelineVars>>

\* client.connect returns, with a stream or without one.
ConnTestConnectReturns(hasStream) ==
  /\ call.fn = "testUsenetConnection" /\ call.pc = "connecting"
  /\ call' = [call EXCEPT !.pc = "waiting", !.streamRef = hasStream,
                          !.listeners = IF hasStream THEN @ \cup {"streamError"} ELSE @]
  /\ UNCHANGED <<cfg, pipelineVars>>

\* client.connect throws.
ConnTestConnectThrows ==
  /\ call.fn = "testUsenetConnection" /\ call.pc = "connecting"
  /\ call' = Finalize([call EXCEPT !.pc = "waiting"], "connect failed", "")
  /\ UNCHANGED <<cfg, pipelineVars>>

\* The timer fires after timeoutMs.
ConnTestTimeout ==
  /\ call.fn = "testUsenetConnection" /\ call.pc = "waiting"
  /\ call.timer
  /\ call' = Finalize([call EXCEPT !.timer = FALSE], "Connection timed out", "")
  /\ UNCHANGED <<cfg, pipelineVars>>

NextConnTest ==
  \/ ConnTestStarts
  \/ \E event \in ClientEvents : ConnTestEmits(event)
  \/ \E hasStream \in BOOLEAN : ConnTestConnectReturns(hasStream)
  \/ ConnTestConnectThrows
  \/ ConnTestTimeout

SpecConnTest == InitConnTest /\ [][NextConnTest]_vars

\* The synchronous part of the function runs to its end, and an armed timer
\* fires.
SpecConnTestFair ==
  /\ SpecConnTest
  /\ WF_vars(ConnTestStarts)
  /\ WF_vars(ConnTestConnectThrows \/ \E hasStream \in BOOLEAN : ConnTestConnectReturns(hasStream))
  /\ WF_vars(ConnTestTimeout)

\* ---------------------------------- the Builder after the Poller, on its own
\* buildNzbdavStream resumes after  await waitForNzbdavHistorySlot(...) .
\* The slots of the harness: each alias of category and of the job name
\* absent or present with a value of its own.
BuilderSlots ==
  { [Slot("nzo1", "", "completed", "", c1, j1)
       EXCEPT !.Category = c2, !.JobName = j2, !.name = j3, !.Name = j4] :
      c1 \in {"", "Tv"}, c2 \in {"", "Series"}, j1 \in {"", "Job"},
      j2 \in {"", "Job2"}, j3 \in {"", "job3"}, j4 \in {"", "Job4"} }

\* listings: the directory listings started; loc: the traversal.
BuilderCall(slot, category) ==
  [fn |-> "buildNzbdavStream", pc |-> "slotReturned", slot |-> slot,
   category |-> category, listings |-> 0, loc |-> NoLoc, outcome |-> NoOutcome]

InitBuilder ==
  /\ PipelineAtRest
  /\ cfg \in Configurations
  /\ call \in { BuilderCall(slot, category) :
                  slot \in BuilderSlots,
                  category \in {NZBDAV_CATEGORY_MOVIES, NZBDAV_CATEGORY_SERIES} }

\* buildNzbdavStream from the slot to the first listing of findBestVideoFile,
\* or to its throw when the slot has no job name.
BuilderLocates ==
  /\ call.fn = "buildNzbdavStream" /\ call.pc = "slotReturned"
  /\ LET slotCategory == SlotCategory(call.slot, call.category)
         slotJobName == SlotJobName(call.slot)
     IN call' = IF slotJobName = ""
                THEN [call EXCEPT !.pc = "threw",
                                  !.outcome = Err(MkError(0, "nojobname"))]
                ELSE [call EXCEPT !.pc = "listing", !.listings = @ + 1,
                                  !.loc = LocShift(LocInit(slotCategory, slotJobName)).loc]
  /\ UNCHANGED <<cfg, pipelineVars>>

NextBuilder == BuilderLocates

SpecBuilder == InitBuilder /\ [][NextBuilder]_vars

\* ================================================================ properties

\* C1 (single-flight): a request that arrives while a build of its key is in
\* flight starts no build of its own, joins the promise of that build, and
\* receives the very outcome (result object or error object) of that build,
\* as the initiator does; the builder ran once for all of them.
C1_SingleFlight ==
  /\ \A k \in Keys : Cardinality(InFlight(k)) <= 1
  /\ \A w \in Req :
       (req[w].pc = "awaiting" /\ req[w].inflight # 0) =>
         /\ req[w].found = "pending"
         /\ build[w].pc = "none"
         /\ req[w].promise = req[w].inflight
         /\ build[req[w].promise].cacheKey = req[w].cacheKey
         /\ build[req[w].promise].addurlCalls <= 1
         /\ req[w].outcome # NoOutcome => req[w].outcome = build[req[w].promise].outcome
  /\ \A r \in Req :
       (req[r].pc = "awaiting" /\ req[r].promise = r /\ req[r].outcome # NoOutcome) =>
         req[r].outcome = build[r].outcome

\* Two requests of one key, the second arrived during the first one's build,
\* both hold the same outcome.
C1_Witness ==
  /\ req[1].pc = "awaiting" /\ req[2].pc = "awaiting"
  /\ req[2].inflight = 1 /\ req[2].promise = 1
  /\ req[1].outcome # NoOutcome
  /\ req[2].outcome = req[1].outcome

\* C2 (job failure cached): the error of a job the poller found failed is
\* flagged isNzbdavFailure; the catch block of the initiator turns the entry
\* into a failed entry holding that error object; a request that finds the
\* failed entry before its expiry is given that same error object and starts
\* nothing (no addurl call, no build, no promise), the entry staying as it is.
C2_JobFailureCached ==
  [][ /\ \A b \in Req :
           (build[b].pc = "polling" /\ build'[b].pc = "settled"
              /\ build'[b].outcome.kind = "err" /\ build'[b].outcome.error.kind = "jobfail")
           => build'[b].outcome.error.isNzbdavFailure
      /\ \A r \in Req :
           (microtasks # <<>> /\ Head(microtasks) = Job("init", r, r)
              /\ build[r].outcome.kind = "err" /\ build[r].outcome.error.isNzbdavFailure)
           => cache'[req[r].cacheKey] =
                FailedEntry(build[r].outcome.error, DateNow + NZBDAV_CACHE_TTL_MS)
      /\ \A r \in Req :
           (req[r].pc = "idle" /\ req'[r].pc = "awaiting"
              /\ cache[req'[r].cacheKey].status = "failed"
              /\ DateNow < cache[req'[r].cacheKey].expiresAt)
           => /\ req'[r].outcome = Err(cache[req'[r].cacheKey].error)
              /\ cache'[req'[r].cacheKey] = cache[req'[r].cacheKey]
              /\ build' = build
              /\ promise' = promise
    ]_vars

\* A later request was answered from the failed entry and runs the fallback.
C2_Witness ==
  /\ req[2].pc = "fallback" /\ req[2].found = "failed"
  /\ build[2].pc = "none" /\ promise[2].state = "none"
  /\ cache[req[2].cacheKey].status = "failed"
  /\ req[2].outcome = Err(cache[req[2].cacheKey].error)
  /\ req[2].outcome.error.obj = 1

\* C3 (other errors never cached): a configuration, submission, history API,
\* poll timeout, missing job name or no-playable-file error is not flagged
\* isNzbdavFailure; when the initiator's catch block runs on such an error the
\* key is left without entry; no failed entry ever holds an unflagged error;
\* and a request that finds no entry for its key starts a build (with one
\* addurl call when the process is configured) and inserts the pending entry.
C3_OtherErrorsNotCached ==
  [][ /\ \A b \in Req :
           (build[b].outcome.kind = "err"
              /\ build[b].outcome.error.kind \in
                   {"config", "submit", "api", "timeout", "nojobname", "noplayable"})
           => ~build[b].outcome.error.isNzbdavFailure
      /\ \A k \in Keys : cache[k].status = "failed" => cache[k].error.isNzbdavFailure
      /\ \A r \in Req :
           (microtasks # <<>> /\ Head(microtasks) = Job("init", r, r)
              /\ build[r].outcome.kind = "err" /\ ~build[r].outcome.error.isNzbdavFailure)
           => cache'[req[r].cacheKey] = NoEntry
      /\ \A r \in Req :
           (req[r].pc = "idle" /\ req'[r].pc = "awaiting"
              /\ cache[req'[r].cacheKey] = NoEntry)
           => /\ cache'[req'[r].cacheKey] = PendingEntry(r)
              /\ promise'[r].state = "pending"
              /\ build'[r].pc = IF ensureNzbdavConfigured(cfg) = "ok" THEN "submitting" ELSE "settled"
              /\ build'[r].addurlCalls = IF ensureNzbdavConfigured(cfg) = "ok" THEN 1 ELSE 0
    ]_vars

\* No time has passed, the first build was rejected, and the second request
\* of the same key is submitting anew.
C3_Witness ==
  /\ ticks = 0
  /\ promise[1].state = "rejected"
  /\ req[2].cacheKey = <<"u1", NZBDAV_CATEGORY_MOVIES>>
  /\ cache[req[2].cacheKey] = PendingEntry(2)
  /\ build[2].pc = "submitting" /\ build[2].addurlCalls = 1

\* C4 (TTL, the same for ready and failed entries): a request arriving
\* strictly before the expiresAt of the entry of its key gets the memoized
\* result or error with no outbound call (no build, promise or entry
\* changes); one arriving at or after expiresAt finds the entry evicted and
\* starts a fresh build, leaving the pending entry of that build.
C4_TtlExpiry ==
  [][ \A r \in Req :
        (req[r].pc = "idle" /\ req'[r].pc = "awaiting"
           /\ cache[req'[r].cacheKey].status \in {"ready", "failed"})
        => LET entry == cache[req'[r].cacheKey]
           IN IF DateNow < entry.expiresAt
              THEN /\ req'[r].outcome = IF entry.status = "ready"
                                        THEN Ok(entry.data) ELSE Err(entry.error)
                   /\ cache'[req'[r].cacheKey] = entry
                   /\ build' = build
                   /\ promise' = promise
              ELSE /\ req'[r].outcome = NoOutcome
                   /\ cache'[req'[r].cacheKey] = PendingEntry(r)
                   /\ promise'[r].state = "pending"
                   /\ build'[r].pc = "submitting" /\ build'[r].addurlCalls = 1
    ]_vars

\* The first build was fulfilled (its entry was ready), and the second request
\* of the same key is building afresh: the entry had expired.
C4_Witness ==
  /\ promise[1].state = "fulfilled"
  /\ req[2].cacheKey = <<"u1", NZBDAV_CATEGORY_MOVIES>>
  /\ req[2].found = "miss"
  /\ cache[req[2].cacheKey] = PendingEntry(2)
  /\ build[2].pc = "submitting"

\* C5 (one entry, one build per key): a key has at most one build in flight,
\* a build in flight owns the pending entry of its key from the very step
\* that started it, and a pending entry names a build of its key, which is
\* in flight whenever a macrotask can run.
C5_OneBuildPerKey ==
  \A k \in Keys :
    /\ Cardinality(InFlight(k)) <= 1
    /\ \A b \in InFlight(k) : cache[k] = PendingEntry(b)
    /\ cache[k].status = "pending" =>
         /\ build[cache[k].promise].cacheKey = k
         /\ promise[cache[k].promise].state \in {"pending", "rejected"}
         /\ MacrotaskTurn => cache[k].promise \in InFlight(k)

\* The first request's build is in flight and owns the entry, the second
\* request of the same key has joined it.
C5_Witness ==
  /\ InFlight(<<"u1", NZBDAV_CATEGORY_MOVIES>>) = {1}
  /\ cache[<<"u1", NZBDAV_CATEGORY_MOVIES>>] = PendingEntry(1)
  /\ req[2].pc = "awaiting" /\ req[2].cacheKey = <<"u1", NZBDAV_CATEGORY_MOVIES>>
  /\ req[2].promise = 1 /\ build[2].pc = "none"
  /\ build[1].pc = "listing"

\* C6 (ready and failed entries are immutable): in every step a ready or
\* failed entry keeps its status, its data or error and its expiresAt (which,
\* kept relative to the present, moves back by the time that passes), unless
\* its expiresAt has been reached and the step removes it.
C6_TerminalEntriesImmutable ==
  [][ \A k \in Keys :
        cache[k].status \in {"ready", "failed"} =>
          \/ cache'[k] = cache[k]
          \/ /\ ticks' = ticks + 1
             /\ \E d \in ClockSteps : cache'[k] = [cache[k] EXCEPT !.expiresAt = Back(@, d)]
          \/ /\ cache[k].expiresAt <= DateNow
             /\ cache'[k].status \in {"none", "pending"}
    ]_vars

\* Time has passed, a later request was served from the ready entry, and the
\* entry is still there.
C6_Witness ==
  /\ ticks > 0
  /\ req[2].pc = "proxying" /\ req[2].found = "ready"
  /\ cache[req[2].cacheKey].status = "ready"
  /\ req[2].outcome = Ok(cache[req[2].cacheKey].data)
  /\ cache[req[2].cacheKey].expiresAt > DateNow

\* C7 (the pipeline is sequential): the first poll is issued in the step in
\* which the addurl call returned a job id; the first listing is issued in a
\* step in which a poll returned; a build that polls has made its one addurl
\* call and holds a job id, one that lists holds the job name of a slot; a
\* build that failed in the configuration check or the submission has never
\* polled or listed, one that failed in the poller has never listed; and a
\* settled build takes no further step.
C7_Sequential ==
  [][ \A b \in Req :
        /\ (~build[b].polled /\ build'[b].polled) =>
             build[b].pc = "submitting" /\ build'[b].nzoId # ""
        /\ (~build[b].listed /\ build'[b].listed) => build[b].pc = "polling"
        /\ build[b].polled => build[b].addurlCalls = 1 /\ build[b].nzoId # ""
        /\ build[b].pc \in {"polling", "sleeping"} => build[b].polled /\ ~build[b].listed
        /\ build[b].pc = "listing" =>
             build[b].polled /\ build[b].listed /\ build[b].slotJobName # ""
        /\ build[b].listed => build[b].polled
        /\ build[b].outcome.kind = "ok" => build[b].polled /\ build[b].listed
        /\ build[b].outcome.kind = "err" =>
             /\ build[b].outcome.error.kind = "config" => build[b].addurlCalls = 0
             /\ build[b].outcome.error.kind \in {"config", "submit"} =>
                  ~build[b].polled /\ ~build[b].listed
             /\ build[b].outcome.error.kind \in {"api", "timeout", "jobfail", "nojobname"} =>
                  build[b].polled /\ ~build[b].listed
             /\ build[b].outcome.error.kind = "noplayable" => build[b].listed
        /\ build[b].pc = "settled" => build'[b] \in {build[b], Collected}
    ]_vars

\* A build went through all three steps and settled with a result.
C7_Witness ==
  \E b \in Req :
    /\ build[b].pc = "settled" /\ build[b].outcome.kind = "ok"
    /\ build[b].addurlCalls = 1 /\ build[b].polled /\ build[b].listed
    /\ promise[b].state = "pending"

\* C8 (a client disconnect is not a cancellation): a step in which a client
\* goes away, be its request waiting for a build or streaming, changes no
\* cache entry, no build, no promise, no queued continuation and no other
\* request, and a waiting request goes on waiting; the build of an initiator
\* whose client is gone stays in flight with its pending entry; and every
\* request still waiting receives the outcome of the build it waits for.
C8_DisconnectHarmless ==
  [][ /\ \A r \in Req :
           (\/ eventLog' = LoggedDisconnect(r) /\ eventLog' # eventLog
            \/ req[r].pc \in {"proxying", "fallback"} /\ req'[r].pc = "done")
           => /\ cache' = cache
              /\ build' = build
              /\ promise' = promise
              /\ microtasks' = microtasks
              /\ \A q \in Req \ {r} : req'[q] = req[q]
              /\ req[r].pc = "awaiting" => req'[r] = req[r]
      /\ \A r \in Req :
           (eventLog = LoggedDisconnect(r) /\ req[r].pc = "awaiting" /\ req[r].promise = r
              /\ promise[r].state = "pending")
           => /\ cache[req[r].cacheKey] = PendingEntry(r)
              /\ build[r].pc # "none"
              /\ build[r] # Collected
      /\ \A w \in Req :
           (microtasks # <<>> /\ Head(microtasks) = Job("handler", w, 0)
              /\ req[w].promise # 0)
           => req[w].outcome = build[req[w].promise].outcome
    ]_vars

\* The initiator's client went away during the build, nothing else happened
\* outside since, and the waiter of the same key is streaming the build's
\* result.
C8_Witness ==
  /\ eventLog = LoggedDisconnect(1)
  /\ req[2].pc = "proxying" /\ req[2].promise = 1 /\ req[2].found = "pending"
  /\ req[2].outcome.kind = "ok" /\ req[2].outcome.data.obj = 1
  /\ cache[req[2].cacheKey].status = "ready"

\* C9 (what the poller makes of a history response): with the first entry of
\* the response whose id is the job's id: if its status is completed the
\* poller returns that slot at once (the build goes on with the slot's job
\* name, or fails for want of one, without sleeping); if its status is failed
\* the build settles with an error flagged isNzbdavFailure that carries the
\* slot's failure message (or the default one), the job id and the category;
\* with any other status, or without such an entry, the poller sleeps for the
\* poll interval, and when it wakes, not before the interval has passed, it
\* polls again if the clock is before the deadline.
C9_PollerClassification ==
  [][ \A b \in Req :
        /\ (build[b].pc = "polling" /\ build'[b].pc # "polling"
              /\ eventLog'.kind = "history" /\ eventLog'.good) =>
             LET slots == eventLog'.slots
                 hits == { i \in 1..Len(slots) : EntryId(slots[i]) = build[b].nzoId }
                 first == CHOOSE i \in hits : \A j \in hits : i <= j
                 sleeps == /\ build'[b].pc = "sleeping"
                           /\ build'[b].wakeAt = DateNow + NZBDAV_POLL_INTERVAL_MS
                           /\ build'[b].deadline = build[b].deadline
                           /\ microtasks' = microtasks
             IN /\ eventLog'.b = b
                /\ IF hits = {} THEN sleeps
                   ELSE IF ToLowerCase(slots[first].status) = "completed"
                   THEN IF slots[first].job_name # ""
                        THEN /\ build'[b].pc = "listing"
                             /\ build'[b].slotJobName = slots[first].job_name
                        ELSE /\ build'[b].pc = "settled"
                             /\ build'[b].outcome = Err(MkError(b, "nojobname"))
                   ELSE IF ToLowerCase(slots[first].status) = "failed"
                   THEN /\ build'[b].pc = "settled"
                        /\ build'[b].outcome.kind = "err"
                        /\ build'[b].outcome.error.isNzbdavFailure
                        /\ build'[b].outcome.error.failureMessage =
                             (IF slots[first].fail_message # ""
                              THEN slots[first].fail_message ELSE "Unknown NZBDav error")
                        /\ build'[b].outcome.error.nzoId = build[b].nzoId
                        /\ build'[b].outcome.error.category = build[b].category
                   ELSE sleeps
        /\ (build[b].pc = "sleeping" /\ build'[b].pc # "sleeping") =>
             /\ build[b].wakeAt <= DateNow
             /\ DateNow < build[b].deadline => build'[b].pc = "polling"
    ]_vars

\* The poller sleeps after a response in which another job has failed and
\* its own job is still downloading.
C9_Witness ==
  /\ eventLog = LoggedHistory(1, TRUE,
                             <<Slot("nzoX", "", "failed", "other", "", "Other"),
                               Slot("nzo1", "", "Downloading", "", "", "Job")>>)
  /\ build[1].pc = "sleeping" /\ build[1].nzoId = "nzo1"

\* C10 (poll timeout): the timeout error is raised only by the poller on
\* waking with the clock at or past the deadline, and it is raised whenever
\* the poller wakes so; it is not flagged isNzbdavFailure; the initiator's
\* catch block leaves no entry for the key, and no failed entry ever holds a
\* timeout error.
C10_PollTimeout ==
  [][ /\ \A b \in Req :
           (build[b].pc # "settled" /\ build'[b].pc = "settled"
              /\ build'[b].outcome.kind = "err" /\ build'[b].outcome.error.kind = "timeout")
           => /\ build[b].pc = "sleeping"
              /\ build[b].deadline <= DateNow
              /\ ~build'[b].outcome.error.isNzbdavFailure
      /\ \A b \in Req :
           (build[b].pc = "sleeping" /\ build'[b].pc # "sleeping"
              /\ build[b].deadline <= DateNow)
           => build'[b].outcome = Err(MkError(b, "timeout"))
      /\ \A r \in Req :
           (microtasks # <<>> /\ Head(microtasks) = Job("init", r, r)
              /\ build[r].outcome.kind = "err" /\ build[r].outcome.error.kind = "timeout")
           => cache'[req[r].cacheKey] = NoEntry
      /\ \A k \in Keys : cache[k].status = "failed" => cache[k].error.kind # "timeout"
    ]_vars

\* A build timed out, its initiator's catch block has run, and the key has
\* no entry.
C10_Witness ==
  \E b \in Req :
    /\ build[b].outcome = Err(MkError(b, "timeout"))
    /\ promise[b].state = "rejected"
    /\ req[b].outcome = build[b].outcome
    /\ cache[build[b].cacheKey] = NoEntry

\* C11 (a manager API error ends the poller): a history call that throws, or
\* whose response has no truthy status, settles the build in that very step
\* with the API error, which is not flagged isNzbdavFailure; the poller does
\* not sleep and the build takes no further step, so no further poll is
\* issued.
C11_PollApiError ==
  [][ \A b \in Req :
        /\ (build[b].pc = "polling" /\ build'[b].pc # "polling"
              /\ eventLog'.kind = "history" /\ ~eventLog'.good) =>
             /\ eventLog'.b = b
             /\ build'[b].pc = "settled"
             /\ build'[b].outcome = Err(MkError(b, "api"))
             /\ ~build'[b].outcome.error.isNzbdavFailure
             /\ microtasks' = <<Job("iife", b, b)>>
        /\ (build[b].outcome.kind = "err" /\ build[b].outcome.error.kind = "api") =>
             /\ build[b].pc = "settled"
             /\ build'[b] \in {build[b], Collected}
    ]_vars

\* The first history call of a build failed and the build's promise is
\* rejected with the API error.
C11_Witness ==
  /\ eventLog = LoggedHistory(1, FALSE, <<>>)
  /\ build[1].outcome = Err(MkError(1, "api"))
  /\ build[1].polled /\ ~build[1].listed
  /\ promise[1].state = "rejected"

\* C12 (the Submitter fails fast): called with the manager URL, the API key
\* or the file-share URL not configured, addNzbToNzbdav throws the
\* configuration error naming the first missing setting, and called with an
\* empty download URL or an empty category it throws as well, in each case
\* without having made a network call; with everything present it makes its
\* one call.
C12_SubmitterFailsFast ==
  [][ call.pc = "called" =>
        IF cfg.url = "" \/ cfg.apiKey = "" \/ cfg.webdavUrl = ""
        THEN /\ call'.pc = "thrown" /\ call'.networkCalls = 0
             /\ call'.result.kind = "err"
             /\ call'.result.message =
                  (IF cfg.url = "" THEN "NZBDAV_URL is not configured"
                   ELSE IF cfg.apiKey = "" THEN "NZBDAV_API_KEY is not configured"
                   ELSE "NZBDAV_WEBDAV_URL is not configured")
        ELSE IF call.nzbUrl = "" \/ call.category = ""
        THEN /\ call'.pc = "thrown" /\ call'.networkCalls = 0
             /\ call'.result.kind = "err"
             /\ call'.result.message \in {"Missing NZB download URL", "Missing NZBDav category"}
        ELSE call'.pc = "requested" /\ call'.networkCalls = 1
    ]_vars

\* Everything is configured, the download URL is empty, and the Submitter
\* has thrown without a network call.
C12_Witness ==
  /\ cfg = [url |-> "http://dav", apiKey |-> "key", webdavUrl |-> "http://dav"]
  /\ call.fn = "addNzbToNzbdav" /\ call.nzbUrl = "" /\ call.category = NZBDAV_CATEGORY_MOVIES
  /\ call.pc = "thrown" /\ call.networkCalls = 0
  /\ call.result = [kind |-> "err", message |-> "Missing NZB download URL"]

\* C13 (one queueing call, no retry): a build makes at most one addurl call,
\* and exactly one once it is past the Submitter's checks; when the call
\* throws, when the response has no truthy status, or when it carries no job
\* id under nzo_id, nzoId, NzoId, nzo_ids[0] or queue[0], the build settles in
\* that step with the submission error, having polled nothing, and never
\* polls or calls again; otherwise the first poll follows with the id found.
C13_OneQueueingCall ==
  [][ \A b \in Req :
        /\ build[b].addurlCalls <= 1
        /\ build'[b].addurlCalls <= 1
        /\ build[b].pc \in {"submitting", "polling", "sleeping", "listing"} =>
             build[b].addurlCalls = 1
        /\ (build[b].pc = "submitting" /\ build'[b].pc # "submitting") =>
             LET d == eventLog'.data
                 rejected == ~eventLog'.transportOk \/ ~d.status
                 noId == /\ d.nzo_id = "" /\ d.nzoId = "" /\ d.NzoId = ""
                         /\ (d.nzo_ids = <<>> \/ d.nzo_ids[1] = "")
                         /\ (d.queue = <<>> \/ d.queue[1] = "")
             IN /\ eventLog'.kind = "addurl" /\ eventLog'.b = b
                /\ build'[b].addurlCalls = 1
                /\ IF rejected \/ noId
                   THEN /\ build'[b].pc = "settled"
                        /\ build'[b].outcome = Err(MkError(b, "submit"))
                        /\ ~build'[b].polled
                   ELSE /\ build'[b].pc = "polling"
                        /\ build'[b].nzoId \in {d.nzo_id, d.nzoId, d.NzoId} \cup
                             {d.nzo_ids[i] : i \in 1..Len(d.nzo_ids)} \cup
                             {d.queue[i] : i \in 1..Len(d.queue)}
                        /\ build'[b].nzoId # ""
        /\ (build[b].outcome.kind = "err" /\ build[b].outcome.error.kind = "submit") =>
             /\ ~build[b].polled /\ ~build[b].listed
             /\ build'[b] \in {build[b], Collected}
    ]_vars

\* The manager answered with a truthy status and no job id; the build is
\* rejected after its one call, without a poll.
C13_Witness ==
  /\ eventLog = LoggedAddUrl(1, TRUE, AddUrlData(TRUE, "", "", "", <<>>, <<>>))
  /\ build[1].outcome = Err(MkError(1, "submit"))
  /\ build[1].addurlCalls = 1 /\ ~build[1].polled
  /\ promise[1].state = "rejected"

\* C14 (episode selection): when a locate call returns, with the videos of
\* the directories it listed: no video gives null; an episode requested and
\* matched by at least one video gives a matching video no smaller than any
\* other matching one, even when a larger video does not match; otherwise
\* (no episode requested, or none matches) a video no smaller than any other.
C14_EpisodeSelection ==
  (call.fn = "findBestVideoFile" /\ call.pc = "returned") =>
    LET ep == call.requestedEpisode
        videos == UNION { LET dir == call.listed[i].path
                              es == Listing(call.tree, RelPath(dir))
                          IN { [name |-> es[j].basename,
                                size |-> IF es[j].size < 0 THEN 0 ELSE es[j].size,
                                absolutePath |-> Path(TRUE, Append(dir.segs, es[j].basename))] :
                               j \in { k \in 1..Len(es) : /\ es[k].type # "directory"
                                                          /\ isVideoFileName(es[k].basename) } } :
                          i \in { n \in 1..Len(call.listed) : call.listed[n].ok } }
        matching == { v \in videos :
                        /\ ep # NoEpisode
                        /\ <<ep.season, ep.episode>> \in EpisodeMarks(v.name) }
        chosen == [name |-> call.result.name, size |-> call.result.size,
                   absolutePath |-> call.result.absolutePath]
    IN IF videos = {} THEN call.result = NoFile
       ELSE IF matching # {}
       THEN /\ chosen \in matching
            /\ \A v \in matching : v.size <= chosen.size
       ELSE /\ chosen \in videos
            /\ \A v \in videos : v.size <= chosen.size

\* Episode 2 of season 1 was asked for: its larger copy in the subdirectory
\* is returned although extras.mkv, listed too, is larger.
C14_Witness ==
  /\ call.fn = "findBestVideoFile" /\ call.pc = "returned"
  /\ call.tree = TreeSeason
  /\ call.requestedEpisode = [season |-> 1, episode |-> 2]
  /\ Len(call.listed) = 2 /\ \A i \in 1..2 : call.listed[i].ok
  /\ call.result.name = "S01E02.mkv" /\ call.result.size = 4
  /\ call.result.viewPath = Path(FALSE, <<"content", "Movies", "job", "sub", "S01E02.mkv">>)

\* C15 (bounded traversal): the first directory a locate call lists is the
\* root at depth 0, the depth of a listed directory is the number of path
\* segments below the root, and no directory at depth 7 or deeper is ever
\* listed, so no file of such a directory is returned.
C15_DepthCap ==
  call.fn = "findBestVideoFile" =>
    /\ call.loc.depth = Len(RelPath(call.loc.currentPath))
    /\ call.pc = "listing" => call.loc.depth <= 6
    /\ \A i \in 1..Len(call.listed) :
         /\ call.listed[i].depth = Len(RelPath(call.listed[i].path))
         /\ call.listed[i].depth <= 6
         /\ i = 1 => /\ call.listed[i].depth = 0
                     /\ call.listed[i].path = RootPath(NZBDAV_CATEGORY_MOVIES, "job")
    /\ (call.pc = "returned" /\ call.result # NoFile) =>
         Len(RelPath(call.result.absolutePath)) - 1 <= 6

\* The chain was listed down to depth 6 and no further: a.mkv of depth 6 is
\* returned, the larger movie.mkv of the directory at depth 7 is not seen.
C15_Witness ==
  /\ call.fn = "findBestVideoFile" /\ call.pc = "returned"
  /\ call.tree = TreeDeep
  /\ Len(call.listed) = 7 /\ \A i \in 1..7 : call.listed[i].ok
  /\ call.listed[7].depth = 6
  /\ call.result.name = "a.mkv"

\* C16 (cycle safety and termination): a locate call lists no path twice,
\* and every call returns, whatever the tree, cycles of paths and repeated
\* entries included.
C16_ListsOnceAndTerminates ==
  /\ [](call.fn = "findBestVideoFile" =>
          /\ \A i, j \in 1..Len(call.listed) :
               call.listed[i].path = call.listed[j].path => i = j
          /\ call.pc = "listing" =>
               \A i \in 1..Len(call.listed) : call.listed[i].path # call.loc.currentPath)
  /\ <>(call.fn = "findBestVideoFile" /\ call.pc = "returned")

\* The tree with the directory reported twice and linked to itself: the call
\* returned after one listing for each of the seven depths.
C16_Witness ==
  /\ call.fn = "findBestVideoFile" /\ call.pc = "returned"
  /\ call.tree = TreeLoop
  /\ Len(call.listed) = 7 /\ \A i \in 1..7 : call.listed[i].ok
  /\ call.result.name = "a.mkv"

\* C17 (listing failures are contained): when a locate call returns, no
\* directory below one whose listing threw was listed, every directory
\* within the cap that a successful listing reported was listed, and the
\* videos of every successfully listed directory counted: one of them is
\* returned, and without an episode request none of them is larger than it.
C17_FailureContained ==
  (call.fn = "findBestVideoFile" /\ call.pc = "returned") =>
    \A i \in 1..Len(call.listed) :
      LET dir == call.listed[i]
          es == Listing(call.tree, RelPath(dir.path))
      IN IF ~dir.ok
         THEN \A j \in 1..Len(call.listed) :
                LET other == call.listed[j].path.segs
                IN ~(/\ Len(other) > Len(dir.path.segs)
                     /\ SubSeq(other, 1, Len(dir.path.segs)) = dir.path.segs)
         ELSE \A k \in 1..Len(es) :
                IF es[k].type = "directory"
                THEN dir.depth + 1 <= NZBDAV_MAX_DIRECTORY_DEPTH =>
                       \E j \in 1..Len(call.listed) :
                         call.listed[j].path.segs = Append(dir.path.segs, es[k].basename)
                ELSE isVideoFileName(es[k].basename) =>
                       /\ call.result # NoFile
                       /\ call.requestedEpisode = NoEpisode =>
                            call.result.size >= es[k].size

\* The listing of sub threw: a.mkv and the larger b.MP4 below it are not
\* seen, and movie.mkv of its sibling d, listed afterwards, is returned.
C17_Witness ==
  /\ call.fn = "findBestVideoFile" /\ call.pc = "returned"
  /\ call.tree = TreeSiblings
  /\ Len(call.listed) = 3
  /\ call.listed[1].ok /\ ~call.listed[2].ok /\ call.listed[3].ok
  /\ call.listed[2].path = Path(TRUE, <<"content", "Movies", "job", "sub">>)
  /\ call.listed[3].path = Path(TRUE, <<"content", "Movies", "job", "d">>)
  /\ call.result.name = "movie.mkv"

\* C18 (unsatisfiable start): a GET whose Range header is bytes=<start>-<end>
\* with a start at or beyond the file size is answered 416 with
\* Content-Range "bytes */<size>" and no body.
C18_UnsatisfiableStart ==
  (call.fn = "streamFileResponse" /\ call.pc = "ended" /\ ~call.emulateHead) =>
    \A a, b \in DigitStrings :
      (/\ call.rangeHeader = Header(RangeHeaderOf(a, b))
       /\ a # <<>>
       /\ (a = HugeDigits \/ DigitsValue(a) >= call.totalSize)) =>
        /\ call.response.status = 416
        /\ call.response.contentRange = <<"bytes */", call.totalSize>>
        /\ call.response.body = <<>>

\* C19 (partial response): a GET whose Range header matches, with a start
\* (0 when omitted) below the file size, is answered 206; the end is the one
\* given, replaced by size-1 when it is missing, at or beyond the size, or
\* below the start, so that 0 <= start <= end <= size-1; Content-Range is
\* "bytes <start>-<end>/<size>", Content-Length is end-start+1 and the body
\* is the bytes start..end.
C19_PartialResponse ==
  (call.fn = "streamFileResponse" /\ call.pc = "ended" /\ ~call.emulateHead) =>
    \A a, b \in DigitStrings :
      (/\ call.rangeHeader = Header(RangeHeaderOf(a, b))
       /\ a # HugeDigits
       /\ DigitsValue(a) < call.totalSize) =>
        LET size == call.totalSize
            start == DigitsValue(a)
            end == IF b = <<>> \/ b = HugeDigits THEN size - 1
                   ELSE IF DigitsValue(b) >= size \/ DigitsValue(b) < start THEN size - 1
                   ELSE DigitsValue(b)
        IN /\ 0 <= start /\ start <= end /\ end <= size - 1
           /\ call.response.status = 206
           /\ call.response.contentRange = <<"bytes ", start, "-", end, "/", size>>
           /\ call.response.contentLength = end - start + 1
           /\ call.response.body = [i \in 1..(end - start + 1) |-> start + i - 1]

\* bytes=2-1 on a file of 3 bytes: the end below the start is replaced and
\* the last byte is served.
C19_Witness ==
  /\ call.fn = "streamFileResponse" /\ call.pc = "ended" /\ ~call.emulateHead
  /\ call.totalSize = 3
  /\ call.rangeHeader = Header(RangeHeaderOf(<<"2">>, <<"1">>))
  /\ call.response.status = 206
  /\ call.response.contentRange = <<"bytes ", 2, "-", 2, "/", 3>>
  /\ call.response.contentLength = 1
  /\ call.response.body = <<2>>

C21_HeadAnswer ==
  (/\ call.fn = "handleNzbdavStream" /\ call.pc = "done" /\ call.method = "HEAD"
   /\ \/ /\ call.outcome.kind = "ok"
         /\ call.answer.status \in {200, 206}
         /\ "content-length" \in DOMAIN call.answer.headers
      \/ /\ call.outcome.kind = "err" /\ call.outcome.error.isNzbdavFailure
         /\ call.assetIsFile) =>
    /\ call.res.headersSent /\ call.res.ended
    /\ call.res.body = <<>>
    /\ \E name \in {"content-length", "Content-Length"} :
         /\ name \in DOMAIN call.res.sentHeaders
         /\ call.res.sentHeaders[name] = call.size

\* C22 (HEAD reads no body): for a HEAD request nothing is piped and no read
\* stream is opened; no body byte is written, and once the file share has
\* answered with a stream, that stream is destroyed and the response ended.
C22_HeadNeverPipes ==
  (call.fn = "handleNzbdavStream" /\ call.method = "HEAD") =>
    /\ ~call.piped /\ ~call.readStream
    /\ call.pc \notin {"piping", "localPiping"}
    /\ call.res.body = <<>>
    /\ (call.answer # NoResponse /\ call.answer.data) =>
         call.destroyed /\ call.res.ended /\ call.pc = "done"

\* The file share answered the HEAD with a stream of one byte: it was
\* destroyed and the response ended without a body.
C22_Witness ==
  /\ call.fn = "handleNzbdavStream" /\ call.method = "HEAD" /\ call.pc = "done"
  /\ call.answer # NoResponse /\ call.answer.status = 206 /\ call.answer.body = <<0>>
  /\ call.destroyed /\ call.res.ended /\ call.res.body = <<>>

\* C23 (header relay): the request to the file share carries, of the inbound
\* headers, exactly the present Range, If-Range, Accept, Accept-Language,
\* Accept-Encoding and User-Agent with their inbound values (a Range of its
\* own only for a HEAD that has none), and the response carries the status
\* of the file share and each of its headers unchanged, Transfer-Encoding in
\* any spelling left out.
C23_HeaderRelay ==
  call.fn = "handleNzbdavStream" =>
    /\ call.requests > 0 =>
         LET out == call.request.headers
             pairs == { <<"range", "Range">>, <<"if-range", "If-Range">>,
                        <<"accept", "Accept">>, <<"accept-language", "Accept-Language">>,
                        <<"accept-encoding", "Accept-Encoding">>,
                        <<"user-agent", "User-Agent">> }
         IN /\ DOMAIN out \subseteq { p[2] : p \in pairs }
            /\ \A p \in pairs :
                 IF p[1] \in DOMAIN call.inbound /\ call.inbound[p[1]] # <<>>
                 THEN p[2] \in DOMAIN out /\ out[p[2]] = call.inbound[p[1]]
                 ELSE p[2] \in DOMAIN out =>
                        /\ p[2] = "Range" /\ call.method = "HEAD"
                        /\ out[p[2]] = <<"b", "y", "t", "e", "s", "=", "0", "-", "0">>
    /\ (call.answer # NoResponse /\ call.caught = NoOutcome) =>
         LET kept == DOMAIN call.answer.headers \ {"transfer-encoding", "Transfer-Encoding"}
         IN /\ call.res.statusCode = call.answer.status
            /\ DOMAIN call.res.headers = kept
            /\ \A k \in kept : call.res.headers[k] = call.answer.headers[k]
            /\ call.res.headersSent =>
                 /\ call.res.sentStatus = call.answer.status
                 /\ call.res.sentHeaders = call.res.headers

\* A GET with all six headers and a cookie was forwarded with the six, and
\* the chunked answer of the file share was relayed without Transfer-Encoding.
C23_Witness ==
  /\ call.fn = "handleNzbdavStream" /\ call.method = "GET" /\ call.pc = "done"
  /\ {"range", "user-agent", "cookie"} \subseteq DOMAIN call.inbound
  /\ Cardinality(DOMAIN call.request.headers) = 6
  /\ call.answer # NoResponse /\ "Transfer-Encoding" \in DOMAIN call.answer.headers
  /\ call.res.ended /\ call.res.sentStatus = 200
  /\ DOMAIN call.res.sentHeaders = {"etag"}

\* C24 as stated (method mapping): a GET is forwarded as GET, a HEAD as GET
\* with Range "bytes=0-0", and any other method is answered 405 without a
\* request to the file share.
C24_MethodMapping ==
  (call.fn = "handleNzbdavStream" /\ call.outcome.kind = "ok" /\ call.pc # "resumed") =>
    /\ call.method = "GET" => call.requests = 1 /\ call.request.method = "GET"
    /\ call.method = "HEAD" =>
         /\ call.requests = 1 /\ call.request.method = "GET"
         /\ "Range" \in DOMAIN call.request.headers
         /\ call.request.headers["Range"] = <<"b", "y", "t", "e", "s", "=", "0", "-", "0">>
    /\ call.method \notin {"GET", "HEAD"} =>
         /\ call.requests = 0 /\ call.request = NoRequest
         /\ call.res.sentStatus = 405 /\ call.res.ended

\* C24 (method mapping, amended): a GET is forwarded as GET; a HEAD is
\* forwarded as GET with the Range of the inbound request when it has a
\* non-empty one and with Range "bytes=0-0" otherwise; any other method is
\* answered 405 without a request to the file share.
C24_MethodMappingOwnRange ==
  (call.fn = "handleNzbdavStream" /\ call.outcome.kind = "ok" /\ call.pc # "resumed") =>
    /\ call.method = "GET" => call.requests = 1 /\ call.request.method = "GET"
    /\ call.method = "HEAD" =>
         /\ call.requests = 1 /\ call.request.method = "GET"
         /\ "Range" \in DOMAIN call.request.headers
         /\ call.request.headers["Range"] =
              IF "range" \in DOMAIN call.inbound /\ call.inbound["range"] # <<>>
              THEN call.inbound["range"]
              ELSE <<"b", "y", "t", "e", "s", "=", "0", "-", "0">>
    /\ call.method \notin {"GET", "HEAD"} =>
         /\ call.requests = 0 /\ call.request = NoRequest
         /\ call.res.sentStatus = 405 /\ call.res.ended

\* A HEAD with Range "bytes=1-" was forwarded as GET with that Range.
C24_Witness ==
  /\ call.fn = "handleNzbdavStream" /\ call.method = "HEAD" /\ call.pc = "done"
  /\ call.outcome.kind = "ok"
  /\ "range" \in DOMAIN call.inbound
  /\ call.inbound["range"] = <<"b", "y", "t", "e", "s", "=", "1", "-">>
  /\ call.request.method = "GET"
  /\ call.request.headers["Range"] = call.inbound["range"]

\* C25 as stated (fallback on job-failure): whenever the handler has caught a
\* job-failure, the response is the fallback file as a stream, never an error
\* response: the failure reason is in the header X-NZBDav-Failure, a HEAD
\* gets the headers with the full length, a request without a usable Range
\* the whole file with 200, a Range within the file that part with 206, and
\* a Range beyond the file 416.
C25_FallbackStream ==
  (/\ call.fn = "handleNzbdavStream"
   /\ call.caught # NoOutcome /\ call.caught.error.isNzbdavFailure) =>
    /\ call.res.json = "" /\ call.res.text = ""
    /\ "X-NZBDav-Failure" \in DOMAIN call.res.headers
    /\ call.res.headers["X-NZBDav-Failure"] = "boom"
    /\ call.res.statusCode \in {200, 206, 416}
    /\ call.method = "HEAD" =>
         /\ call.res.sentStatus = 200 /\ call.res.body = <<>> /\ call.res.ended
         /\ call.res.sentHeaders["Content-Length"] = call.size
    /\ (call.method # "HEAD" /\ call.pipeError = "") =>
         LET range == IF "range" \in DOMAIN call.inbound THEN call.inbound["range"] ELSE <<>>
             sent == call.res.body \o call.pending
             whole == [i \in 1..call.size |-> i - 1]
         IN /\ range = <<>> =>
                 /\ call.res.statusCode = 200 /\ sent = whole
                 /\ call.res.headers["Content-Length"] = call.size
            /\ range = <<"b", "y", "t", "e", "s", "=", "1", "-">> =>
                 /\ call.res.statusCode = 206 /\ sent = Tail(whole)
                 /\ call.res.headers["Content-Length"] = call.size - 1
                 /\ call.res.headers["Content-Range"] =
                      <<"bytes ", 1, "-", call.size - 1, "/", call.size>>
            /\ range = <<"b", "y", "t", "e", "s", "=", "5", "-">> =>
                 /\ call.res.sentStatus = 416 /\ sent = <<>> /\ call.res.ended
                 /\ call.res.sentHeaders["Content-Range"] = <<"bytes */", call.size>>
            /\ call.pc = "done" => call.res.ended /\ call.pending = <<>>

\* C25 (fallback on job-failure, amended): the same, when the failure video
\* is a regular file; when it is not, the response is 502 with the failure
\* reason as JSON.
C25_FallbackStreamWhenPresent ==
  (/\ call.fn = "handleNzbdavStream"
   /\ call.caught # NoOutcome /\ call.caught.error.isNzbdavFailure) =>
    IF ~call.assetIsFile
    THEN /\ call.res.sentStatus = 502 /\ call.res.json = "boom" /\ call.res.ended
         /\ call.res.body = <<>> /\ ~call.readStream
    ELSE
      /\ call.res.json = "" /\ call.res.text = ""
      /\ "X-NZBDav-Failure" \in DOMAIN call.res.headers
      /\ call.res.headers["X-NZBDav-Failure"] = "boom"
      /\ call.res.statusCode \in {200, 206, 416}
      /\ call.method = "HEAD" =>
           /\ call.res.sentStatus = 200 /\ call.res.body = <<>> /\ call.res.ended
           /\ call.res.sentHeaders["Content-Length"] = call.size
      /\ (call.method # "HEAD" /\ call.pipeError = "") =>
           LET range == IF "range" \in DOMAIN call.inbound THEN call.inbound["range"] ELSE <<>>
               sent == call.res.body \o call.pending
               whole == [i \in 1..call.size |-> i - 1]
           IN /\ range = <<>> =>
                   /\ call.res.statusCode = 200 /\ sent = whole
                   /\ call.res.headers["Content-Length"] = call.size
              /\ range = <<"b", "y", "t", "e", "s", "=", "1", "-">> =>
                   /\ call.res.statusCode = 206 /\ sent = Tail(whole)
                   /\ call.res.headers["Content-Length"] = call.size - 1
                   /\ call.res.headers["Content-Range"] =
                        <<"bytes ", 1, "-", call.size - 1, "/", call.size>>
              /\ range = <<"b", "y", "t", "e", "s", "=", "5", "-">> =>
                   /\ call.res.sentStatus = 416 /\ sent = <<>> /\ call.res.ended
                   /\ call.res.sentHeaders["Content-Range"] = <<"bytes */", call.size>>
              /\ call.pc = "done" => call.res.ended /\ call.pending = <<>>

\* A job-failure answered by the bytes 1 and 2 of the failure video of three
\* bytes, with 206 and the failure reason in the header.
C25_Witness ==
  /\ call.fn = "handleNzbdavStream" /\ call.method = "GET" /\ call.pc = "done"
  /\ call.caught # NoOutcome /\ call.caught.error.isNzbdavFailure
  /\ call.readStream /\ call.res.ended
  /\ call.res.sentStatus = 206
  /\ call.res.sentHeaders["X-NZBDav-Failure"] = "boom"
  /\ call.res.body = <<1, 2>>

\* C26 (other errors): the step in which the handler catches an error that is
\* not a job-failure writes the status and the JSON error when no headers
\* were sent, and otherwise only ends the response: status sent, headers
\* sent and body stay as they were and no JSON is written.
C26_OtherErrors ==
  [][(/\ call.fn = "handleNzbdavStream"
      /\ call.caught = NoOutcome /\ call'.caught # NoOutcome
      /\ ~call'.caught.error.isNzbdavFailure) =>
       /\ call'.pc = "done" /\ call'.res.ended
       /\ IF ~call.res.headersSent
          THEN /\ call'.res.sentStatus =
                    IF call'.caught.error.responseStatus # 0
                    THEN call'.caught.error.responseStatus ELSE 502
               /\ call'.res.json = call'.caught.error.message
               /\ call'.res.body = <<>>
          ELSE /\ call'.res.sentStatus = call.res.sentStatus
               /\ call'.res.sentHeaders = call.res.sentHeaders
               /\ call'.res.body = call.res.body
               /\ call'.res.json = "" /\ call'.res.text = ""]_vars

\* The upstream stream broke after the first byte of a 206 went out: the
\* response was ended with that byte and no error body.
C26_Witness ==
  /\ call.fn = "handleNzbdavStream" /\ call.pc = "done"
  /\ call.caught # NoOutcome /\ ~call.caught.error.isNzbdavFailure
  /\ call.pipeError = "ECONNRESET"
  /\ call.res.sentStatus = 206 /\ call.res.body = <<1>> /\ call.pending = <<2>>
  /\ call.res.json = "" /\ call.res.ended

\* C27 (client disconnect): the step in which the pipeline fails with
\* ERR_STREAM_PREMATURE_CLOSE, on the remote or the local path, ends the
\* handler normally: nothing new is caught, and the response is left as it
\* was, without an error response.
C27_DisconnectIsNormal ==
  [][(/\ call.fn = "handleNzbdavStream"
      /\ call.pipeError = "" /\ call'.pipeError = "ERR_STREAM_PREMATURE_CLOSE") =>
       /\ call'.pc = "done" /\ call'.returned = "normally"
       /\ call'.caught = call.caught
       /\ call'.res = call.res]_vars

\* The client went away after one byte of a remote 200: the handler returned
\* normally with nothing caught.
C27_Witness ==
  /\ call.fn = "handleNzbdavStream" /\ call.pc = "done"
  /\ call.pipeError = "ERR_STREAM_PREMATURE_CLOSE"
  /\ call.piped /\ call.caught = NoOutcome /\ call.returned = "normally"
  /\ call.res.sentStatus = 200 /\ call.res.body = <<0>> /\ call.res.json = ""
  /\ ~call.res.ended

\* C28 (a proxy error leaves the cache alone): the step in which the file
\* share fails while a request is proxied changes no cache entry: the entry
\* of the request's key keeps its status, result and expiresAt, and no failed
\* entry appears.
C28_ProxyErrorKeepsCache ==
  [][\A r \in Req, k \in Keys :
       (eventLog' = LoggedProxyError(r, k) /\ eventLog' # eventLog) =>
         /\ cache'[k] = cache[k]
         /\ \A j \in Keys : cache'[j].status = "failed" => cache[j].status = "failed"
         /\ cache' = cache]_vars

\* The file share failed for a request served from a ready entry, and the
\* entry is still there, ready.
C28_Witness ==
  /\ eventLog.on /\ eventLog.kind = "proxyError"
  /\ req[eventLog.r].pc = "done"
  /\ cache[eventLog.k].status = "ready"

\* C29 (cache key identity): two requests get the same cache key exactly when
\* they have the same download URL, the same category and the same requested
\* episode (or both none); the title has no part in it.
C29_KeyIdentity ==
  (call.fn = "cacheKey" /\ call.pc = "done") =>
    (call.keyed[1].cacheKey = call.keyed[2].cacheKey
       <=> /\ call.requests[1].downloadUrl = call.requests[2].downloadUrl
           /\ call.keyed[1].category = call.keyed[2].category
           /\ call.keyed[1].requestedEpisode = call.keyed[2].requestedEpisode)

\* Two requests for the same URL and episode 1x12, one by its query and one
\* by its series id, under different titles, got one key.
C29_Witness ==
  /\ call.fn = "cacheKey" /\ call.pc = "done"
  /\ call.requests[1].title # call.requests[2].title
  /\ call.requests[1].type = "series" /\ call.requests[2].type = "series"
  /\ call.requests[1].query.season = 1 /\ call.requests[1].query.episode = 12
  /\ call.requests[2].query.season = 0 /\ call.requests[2].id.season = 1
  /\ call.requests[1].downloadUrl = <<"u1", "|", "Movies">>
  /\ call.keyed[1].cacheKey = call.keyed[2].cacheKey
  /\ call.keyed[1].cacheKey = <<"u1", "|", "Movies", "|", "Tv", "|", "1", "x", "1", "2">>

\* C30 (one terminal signal): whatever the client and its stream emit, in
\* any order and any number of times, and whether or not connect throws,
\* resolve and reject are called at most once together, the promise never
\* changes once it is settled, and it is settled in the end.
C30_SettlesOnce ==
  /\ [](call.resolveCalls + call.rejectCalls <= 1)
  /\ [](/\ call.promise.state = "fulfilled" <=> call.resolveCalls = 1
        /\ call.promise.state = "rejected" <=> call.rejectCalls = 1)
  /\ [][call.promise.state # "pending" => call'.promise = call.promise]_vars
  /\ <>(call.promise.state # "pending")

\* The client emitted an error inside connect, connect returned a stream
\* whose listener was registered after the test was settled, and an error
\* of that stream was ignored.
C30_Witness ==
  /\ call.fn = "testUsenetConnection" /\ call.pc = "waiting"
  /\ call.settled /\ call.promise.state = "rejected" /\ call.rejectCalls = 1
  /\ "streamError" \in call.listeners
  /\ call.ignored >= 1 /\ call.events >= 2
  /\ ~call.timer

\* C31 (locator root): once the poller has returned the completed slot, the
\* first listing is that of /content/<category>/<job name> with the category
\* the slot carries, the requested one only when the slot carries none, and
\* the job name the slot carries; a slot without a job name ends the build
\* with an error that is no job-failure, before any listing.
C31_LocatorRoot ==
  (call.fn = "buildNzbdavStream" /\ call.pc # "slotReturned") =>
    LET slot == call.slot
        categories == <<slot.category, slot.Category, call.category>>
        names == <<slot.job_name, slot.JobName, slot.name, slot.Name>>
        first(values) == values[CHOOSE i \in DOMAIN values :
                                  /\ values[i] # ""
                                  /\ \A j \in 1..(i - 1) : values[j] = ""]
    IN IF \A i \in DOMAIN names : names[i] = ""
       THEN /\ call.pc = "threw" /\ call.listings = 0 /\ call.loc = NoLoc
            /\ call.outcome.kind = "err" /\ ~call.outcome.error.isNzbdavFailure
       ELSE /\ call.pc = "listing" /\ call.listings = 1
            /\ call.loc.currentPath =
                 [abs |-> TRUE, segs |-> <<"content", first(categories), first(names)>>]
            /\ (slot.category # "" \/ slot.Category # "") =>
                 call.loc.currentPath.segs[2] \in {slot.category, slot.Category}

\* A request for Movies whose slot says Tv: the locator lists /content/Tv/Job.
C31_Witness ==
  /\ call.fn = "buildNzbdavStream" /\ call.pc = "listing"
  /\ call.category = "Movies" /\ call.slot.category = "Tv" /\ call.slot.job_name = "Job"
  /\ call.loc.currentPath = [abs |-> TRUE, segs |-> <<"content", "Tv", "Job">>]

\* C32 (every build settles): when every outbound call returns or fails, the
\* timers fire and the event loop runs, every state in which the promise of
\* a build is pending or a key holds a pending entry is followed by a state
\* in which every promise is settled and no key holds a pending entry: each
\* build settles, and its entry becomes ready or failed or is removed.
C32_BuildsSettle ==
  (\E b \in Req : promise[b].state = "pending" \/ \E k \in Keys : cache[k] = PendingEntry(b))
    ~> (\A b \in Req : /\ promise[b].state \in {"none", "fulfilled", "rejected"}
                       /\ \A k \in Keys : cache[k] # PendingEntry(b))

\* A build whose poller ran into its deadline: the promise is rejected and
\* the entry of its key is gone.
C32_Witness ==
  /\ promise[1].state = "rejected"
  /\ build[1].outcome.kind = "err" /\ build[1].outcome.error.kind = "timeout"
  /\ build[1].polled
  /\ cache[build[1].cacheKey] = NoEntry

\* C33 (commit before observation): in the step in which the initiator or a
\* waiter of a build receives its result or error, the entry of the key is no
\* longer pending: it is ready with that result, failed with that error when
\* it is a job-failure, and gone on any other error.
C33_CommitBeforeObservation ==
  [][\A r \in Req :
       (req[r].promise # 0 /\ req[r].outcome = NoOutcome /\ req'[r].outcome # NoOutcome) =>
         LET entry == cache'[req[r].cacheKey]
             out == req'[r].outcome
         IN /\ entry.status # "pending"
            /\ out.kind = "ok" => entry.status = "ready" /\ entry.data = out.data
            /\ (out.kind = "err" /\ out.error.isNzbdavFailure) =>
                 entry.status = "failed" /\ entry.error = out.error
            /\ (out.kind = "err" /\ ~out.error.isNzbdavFailure) => entry = NoEntry]_vars

\* A waiter has received the job-failure of the build it joined, and the
\* failed entry is in the cache.
C33_Witness ==
  /\ req[2].pc = "awaiting" /\ req[2].found = "pending" /\ req[2].promise = 1
  /\ req[2].outcome.kind = "err" /\ req[2].outcome.error.isNzbdavFailure
  /\ cache[req[2].cacheKey].status = "failed"
  /\ cache[req[2].cacheKey].error = req[2].outcome.error

\* C34 (no stale commit): the step in which a settled build stores its ready
\* entry, or its initiator's catch block stores the failed entry or deletes
\* the key, finds that build's own pending entry under the key and changes no
\* other key.
C34_NoStaleCommit ==
  [][\A b \in Req :
       (\/ promise[b].state = "pending" /\ promise'[b].state = "fulfilled"
        \/ /\ req[b].promise = b /\ req[b].outcome = NoOutcome
           /\ req'[b].outcome.kind = "err") =>
         /\ cache[build[b].cacheKey] = PendingEntry(b)
         /\ cache'[build[b].cacheKey].status \in {"ready", "failed", "none"}
         /\ \A k \in Keys \ {build[b].cacheKey} : cache'[k] = cache[k]]_vars

\* The first build ended with an error and removed its entry; the second
\* request asked for the same key, and its build holds the entry.
C34_Witness ==
  /\ promise[1].state = "rejected" /\ req[1].pc = "done"
  /\ req[2].cacheKey = <<"u1", NZBDAV_CATEGORY_MOVIES>> /\ req[2].found = "miss"
  /\ cache[req[2].cacheKey] = PendingEntry(2)
  /\ build[2].pc = "polling"

\* C35 (a pending entry does not expire): a pending entry has no expiresAt,
\* and a step changes it only when the build it names has settled, into the
\* ready or failed entry or into none.
C35_PendingNeverEvicted ==
  [][\A k \in Keys :
       cache[k].status = "pending" =>
         /\ "expiresAt" \notin DOMAIN cache[k]
         /\ \/ cache'[k] = cache[k]
            \/ /\ build[cache[k].promise].pc = "settled"
               /\ build[cache[k].promise].outcome # NoOutcome
               /\ cache'[k].status \in {"ready", "failed", "none"}]_vars

\* The clock has run past the deadline of a sleeping poller, another key has
\* been asked for, and the entry of the sleeping build is still pending.
C35_Witness ==
  /\ ticks >= 1
  /\ build[1].pc = "sleeping" /\ build[1].deadline < DateNow
  /\ cache[build[1].cacheKey] = PendingEntry(1)
  /\ req[2].pc = "awaiting" /\ req[2].promise = 2 /\ req[2].cacheKey # build[1].cacheKey

\* C36 (key isolation): a step changes the entry of a key only when a request
\* for that key arrives, when a build of that key commits, when the clock
\* advances (the expiresAt, kept relative to the present, moves back), or
\* when a request for any key arrives and the entry is ready or failed and
\* at or past its expiresAt, and then the entry is removed.
C36_KeyIsolation ==
  [][\A k \in Keys :
       cache'[k] # cache[k] =>
         \/ \E r \in Req : req[r].pc = "idle" /\ req'[r].pc # "idle" /\ req'[r].cacheKey = k
         \/ \E b \in Req :
              /\ build[b].cacheKey = k
              /\ \/ promise[b].state = "pending" /\ promise'[b].state = "fulfilled"
                 \/ req[b].promise = b /\ req[b].outcome = NoOutcome /\ req'[b].outcome # NoOutcome
         \/ /\ ticks' = ticks + 1
            /\ cache[k].status \in {"ready", "failed"}
            /\ \E d \in ClockSteps : cache'[k] = [cache[k] EXCEPT !.expiresAt = Back(@, d)]
         \/ /\ \E r \in Req : req[r].pc = "idle" /\ req'[r].pc # "idle"
            /\ cache[k].status \in {"ready", "failed"}
            /\ cache[k].expiresAt <= DateNow
            /\ cache'[k] = NoEntry]_vars

\* The entry of the first key is ready and has aged, and a request for the
\* second key has started a build of its own.
C36_Witness ==
  /\ ticks >= 1
  /\ cache[<<"u1", NZBDAV_CATEGORY_MOVIES>>].status = "ready"
  /\ cache[<<"u1", NZBDAV_CATEGORY_MOVIES>>].expiresAt < NZBDAV_CACHE_TTL_MS
  /\ req[2].cacheKey = <<"u2", NZBDAV_CATEGORY_MOVIES>>
  /\ cache[<<"u2", NZBDAV_CATEGORY_MOVIES>>] = PendingEntry(2)

\* The videos of the directories a locate call has listed, in the order the
\* call met them: directory after directory as listed, entry after entry.
RECURSIVE DiscoveredVideos(_, _)
DiscoveredVideos(tree, listed) ==
  IF listed = <<>> THEN <<>>
  ELSE LET last == listed[Len(listed)]
           es == Listing(tree, RelPath(last.path))
           IsVideo(e) == e.type # "directory" /\ isVideoFileName(e.basename)
           vs == SelectSeq(es, IsVideo)
           here == [j \in 1..Len(vs) |->
                      [name |-> vs[j].basename,
                       size |-> IF vs[j].size < 0 THEN 0 ELSE vs[j].size,
                       absolutePath |-> Path(TRUE, Append(last.path.segs, vs[j].basename))]]
       IN DiscoveredVideos(tree, SubSeq(listed, 1, Len(listed) - 1)) \o
            (IF last.ok THEN here ELSE <<>>)

\* C37 (tie-break and determinism): when a locate call returns, the file it
\* returns is the first, in the order of discovery, among the candidates of
\* the largest size (the candidates are the videos matching the requested
\* episode when there is one, all videos otherwise); so the result is a
\* function of the tree, the requested episode and the outcomes of the
\* listings.
C37_FirstLargestWins ==
  (call.fn = "findBestVideoFile" /\ call.pc = "returned") =>
    LET ep == call.requestedEpisode
        all == DiscoveredVideos(call.tree, call.listed)
        Matches(v) == ep # NoEpisode /\ <<ep.season, ep.episode>> \in EpisodeMarks(v.name)
        matching == SelectSeq(all, Matches)
        pool == IF matching # <<>> THEN matching ELSE all
        largest == CHOOSE m \in { pool[i].size : i \in 1..Len(pool) } :
                     \A i \in 1..Len(pool) : pool[i].size <= m
        first == CHOOSE i \in 1..Len(pool) :
                   /\ pool[i].size = largest
                   /\ \A j \in 1..(i - 1) : pool[j].size < largest
    IN IF pool = <<>> THEN call.result = NoFile
       ELSE /\ call.result # NoFile
            /\ call.result.name = pool[first].name
            /\ call.result.size = pool[first].size
            /\ call.result.absolutePath = pool[first].absolutePath

\* Three videos of size 6 were met, one in the first subdirectory and two in
\* its sibling listed after it: the one met first is returned.
C37_Witness ==
  /\ call.fn = "findBestVideoFile" /\ call.pc = "returned"
  /\ call.tree = TreeTies /\ call.requestedEpisode = NoEpisode
  /\ Len(call.listed) = 3 /\ \A i \in 1..3 : call.listed[i].ok
  /\ call.result.size = 6
  /\ call.result.absolutePath = Path(TRUE, <<"content", "Movies", "job", "sub", "a.mkv">>)

\* C38 (a range without a start), as stated: a GET whose Range header is
\* bytes=-N is answered 206 with the bytes 0..N, Content-Range
\* "bytes 0-N/<size>" and Content-Length N+1 when N < size, and 206 with the
\* whole file when N >= size.
C38_SuffixRange ==
  (call.fn = "streamFileResponse" /\ call.pc = "ended" /\ ~call.emulateHead) =>
    \A b \in DigitStrings \ {<<>>} :
      call.rangeHeader = Header(RangeHeaderOf(<<>>, b)) =>
        LET size == call.totalSize
        IN IF b # HugeDigits /\ DigitsValue(b) < size
           THEN /\ call.response.status = 206
                /\ call.response.contentRange = <<"bytes ", 0, "-", DigitsValue(b), "/", size>>
                /\ call.response.contentLength = DigitsValue(b) + 1
                /\ call.response.body = [i \in 1..(DigitsValue(b) + 1) |-> i - 1]
           ELSE /\ call.response.status = 206
                /\ call.response.contentLength = size
                /\ call.response.body = [i \in 1..size |-> i - 1]

\* C38, amended: as stated for a file that is not empty; for an empty file
\* the header bytes=-N is answered 416 with Content-Range "bytes */0" and no
\* body, whatever N.
C38_SuffixRangeNonEmptyFile ==
  (call.fn = "streamFileResponse" /\ call.pc = "ended" /\ ~call.emulateHead) =>
    \A b \in DigitStrings \ {<<>>} :
      call.rangeHeader = Header(RangeHeaderOf(<<>>, b)) =>
        LET size == call.totalSize
            whole == b = HugeDigits \/ DigitsValue(b) >= size
        IN /\ (size > 0 /\ ~whole) =>
                /\ call.response.status = 206
                /\ call.response.contentRange = <<"bytes ", 0, "-", DigitsValue(b), "/", size>>
                /\ call.response.contentLength = DigitsValue(b) + 1
                /\ call.response.body = [i \in 1..(DigitsValue(b) + 1) |-> i - 1]
           /\ (size > 0 /\ whole) =>
                /\ call.response.status = 206
                /\ call.response.contentLength = size
                /\ call.response.body = [i \in 1..size |-> i - 1]
           /\ size = 0 =>
                /\ call.response.status = 416
                /\ call.response.contentRange = <<"bytes */", 0>>
                /\ call.response.body = <<>>

\* bytes=-1 on a file of 3 bytes: the first two bytes are sent, not the last
\* one.
C38_Witness ==
  /\ call.fn = "streamFileResponse" /\ call.pc = "ended" /\ ~call.emulateHead
  /\ call.totalSize = 3
  /\ call.rangeHeader = Header(RangeHeaderOf(<<>>, <<"1">>))
  /\ call.response.status = 206
  /\ call.response.contentRange = <<"bytes ", 0, "-", 1, "/", 3>>
  /\ call.response.contentLength = 2
  /\ call.response.body = <<0, 1>>

\* What a value of the model's queries and ids stands for as a number: 0
\* for an absent value, for a 0 and for a text that does not begin with a
\* finite integer.
EpisodeNumber(value) ==
  IF ~value.present THEN 0
  ELSE CASE value.text = <<"1">> -> 1
         [] value.text = <<"1", "2">> -> 12
         [] value.text = <<"-", "1">> -> 0 - 1
         [] value.text = <<" ", "3">> -> 3
         [] value.text = <<"2", "x">> -> 2
         [] value.text = <<"1", ".", "5">> -> 1
         [] OTHER -> 0

\* C39 (the requested episode): an episode is returned only with a season
\* and an episode that are integers other than 0; it is the pair of the
\* query when both its values are such integers, whatever the id; otherwise
\* the pair of the id, for type series only and when both are such integers;
\* otherwise none, and then the key has no episode part and no file is
\* excluded by the episode filter.
C39_RequestedEpisode ==
  (call.fn = "parseRequestedEpisode" /\ call.pc = "parsed") =>
    LET q == call.query
        qs == EpisodeNumber(IF q.season.present THEN q.season
                            ELSE IF q.Season.present THEN q.Season ELSE q.S)
        qe == EpisodeNumber(IF q.episode.present THEN q.episode
                            ELSE IF q.Episode.present THEN q.Episode ELSE q.E)
        fromId == call.type = "series" /\ call.id.isString /\ Len(call.id.parts) >= 3
        is == IF fromId THEN EpisodeNumber(Text(call.id.parts[2])) ELSE 0
        ie == IF fromId THEN EpisodeNumber(Text(call.id.parts[3])) ELSE 0
        result == call.requestedEpisode
    IN /\ result # NoEpisode =>
            /\ result.season \in Int \ {0} /\ result.episode \in Int \ {0}
            /\ Len(call.cacheKeyParts) = 3
            /\ call.cacheKeyParts[3] = DecimalOf(result.season) \o <<"x">> \o DecimalOf(result.episode)
       /\ (qs # 0 /\ qe # 0) => result = [season |-> qs, episode |-> qe]
       /\ (~(qs # 0 /\ qe # 0) /\ is # 0 /\ ie # 0) => result = [season |-> is, episode |-> ie]
       /\ (~(qs # 0 /\ qe # 0) /\ ~(is # 0 /\ ie # 0)) =>
            /\ result = NoEpisode
            /\ call.cacheKeyParts = <<<<"u1">>, <<getNzbdavCategory(call.type)>> >>
            /\ \A f \in {"S01E02.mkv", "S01E03.mkv", "extras.mkv", "movie.mkv"} :
                 fileMatchesEpisode(f, result)

\* A series request whose id says 1:12 and whose query says season 12,
\* episode 1: the query's pair is returned and is in the key.
C39_Witness ==
  /\ call.fn = "parseRequestedEpisode" /\ call.pc = "parsed"
  /\ call.type = "series"
  /\ call.id = [isString |-> TRUE, parts |-> << <<"t", "t", "1">>, <<"1">>, <<"1", "2">> >>]
  /\ call.query.season = Text(<<"1", "2">>) /\ call.query.episode = Text(<<"1">>)
  /\ call.requestedEpisode = [season |-> 12, episode |-> 1]
  /\ call.cacheKeyParts[3] = <<"1", "2", "x", "1">>

====
